---- MODULE Spec2Model ----
(***************************************************************************)
(* HSMS session layer of secsgem.py: HsmsConnection (socket, receiver      *)
(* thread, send_packet) and HsmsHandler (system counter, pending-response  *)
(* table, select / deselect / linktest / separate / reject handling).      *)
(*                                                                         *)
(* Threads are modelled at the granularity of their accesses to shared     *)
(* attributes: one step per load or store of self.systemCounter, per       *)
(* access to self._systemQueues, per socket write.                         *)
(***************************************************************************)
EXTENDS Integers, Sequences, FiniteSets, TLC

(* ------------------------------ bounds -------------------------------- *)

\* calls the application threads make, all together
MaxCalls == 2
\* packets the peer sends over the life of the model
MaxInbound == 2
\* TCP connections established over the life of the model
MaxConnects == 2
\* blocks of sendBlockSize bytes in the largest outbound data frame
MaxBlocks == 2
\* frames the peer sends on one connection, byte by byte
MaxFrames == 2
\* connect attempts of an active connection over the life of the model
MaxAttempts == 3
\* data packets the HSMS layer passes up to the SECS / GEM handler
MaxHandled == 2
\* packets the SECS / GEM handler sends
MaxSent == 3
\* calls of event functions of a state machine
MaxFired == 3
\* event functions of a state machine in execution at once
MaxDepth == 2
\* connections the host and the equipment establish
MaxSessions == 1
\* items of a message with a list
MaxItems == 2
\* events the operations of a handler fire on its communication state machine
MaxEvents == 6
\* linktest timers a handler creates over the life of the model
MaxTimers == 4

(* ------------------- Python integers (unbounded) ---------------------- *)

\* A Python int is kept as CPython keeps it, as digits of 30 bits, most
\* significant first: <<hi, lo>> stands for hi * 2^30 + lo.  The counter
\* passes through 2^31, which a signed 32-bit integer cannot hold.
PyLongBase == 2^30

PyInt(n) == <<n \div PyLongBase, n % PyLongBase>>

PyAdd1(v) == IF v[2] = PyLongBase - 1 THEN <<v[1] + 1, 0>> ELSE <<v[1], v[2] + 1>>

PyGT(a, b) == a[1] > b[1] \/ (a[1] = b[1] /\ a[2] > b[2])

\* (2 ** 31) - 1
SystemCounterMax == <<1, PyLongBase - 1>>

(* ----------------------------- packets -------------------------------- *)

ControlSessionId == 65535
sessionID == 0
RejectReasonNotReady == 4

Header(sid, w, stream, function, sType, system) ==
    [sessionID |-> sid, requireResponse |-> w, stream |-> stream,
     function |-> function, pType |-> 0, sType |-> sType, system |-> system]

HsmsSelectReqHeader(system) == Header(ControlSessionId, FALSE, 0, 0, 1, system)
HsmsSelectRspHeader(system) == Header(ControlSessionId, FALSE, 0, 0, 2, system)
HsmsDeselectReqHeader(system) == Header(ControlSessionId, FALSE, 0, 0, 3, system)
HsmsDeselectRspHeader(system) == Header(ControlSessionId, FALSE, 0, 0, 4, system)
HsmsLinktestReqHeader(system) == Header(ControlSessionId, FALSE, 0, 0, 5, system)
HsmsLinktestRspHeader(system) == Header(ControlSessionId, FALSE, 0, 0, 6, system)
HsmsRejectReqHeader(system, s_type, reason) ==
    Header(ControlSessionId, FALSE, s_type, reason, 7, system)
HsmsSeparateReqHeader(system) == Header(ControlSessionId, FALSE, 0, 0, 9, system)
HsmsStreamFunctionHeader(system, stream, function, require_response, sid) ==
    Header(sid, require_response, stream, function, 0, system)

(* ------------------------------ threads ------------------------------- *)

\* application threads calling the send_* methods of one handler
Senders == {"s1", "s2"}
\* the connection's receiver thread
Rcv == "rcv"
Threads == Senders \cup {Rcv}
\* the threads __start_connect_thread creates, as many as can be alive at once
ConnThreads == {"c1", "c2"}
\* the threads that call waitfor_communicating
Waiters == {"w1", "w2"}
\* _generate_sf_callback_name: the names "sXXfYY" of the model's data
\* messages, as <<stream, function>>
CallbackNames == {<<1, 1>>, <<3, 1>>}

\* the send methods that register a pending-response entry, and the
\* fire-and-forget send_stream_function
WaitKinds == {"data", "select", "deselect", "linktest"}
SendKinds == WaitKinds \cup {"sf"}

VARIABLES
    systemCounter,   \* HsmsHandler.systemCounter
    systemQueues,    \* HsmsHandler._systemQueues: system id -> queue object
    connected,       \* HsmsHandler.connected
    is_connected,    \* HsmsHandler.is_connected
    is_selected,     \* HsmsHandler.is_selected
    sock,            \* HsmsConnection.sock: "none", "open", "closed", or
                     \* "unconnected" after a failed connect
    threadRunning,   \* HsmsConnection.threadRunning
    stopThread,      \* HsmsConnection.stopThread
    disconnecting,   \* HsmsConnection.disconnecting
    connConnected,   \* HsmsConnection.connected
    wire,            \* blocks written to the current socket, in order
    dispatched,      \* packets passed to _on_hsms_packet_received, in order
    establishing,    \* _start_receiver has yet to call on_connection_established
    disconnectCall,  \* a disconnect() call waits for the receiver to stop
    pc,              \* position of each thread
    kind,            \* the send method a sender is in
    tmp,             \* get_next_system_counter: the value loaded for += 1
    system_id,       \* local system_id of the send method
    queue,           \* the queue.Queue each sender created last
    response,        \* local response: <<>> is None, <<p>> a packet
    outcome,         \* how a sender's last call ended
    blocksLeft,      \* send_packet: blocks of the frame not yet written
    frameBlocks,     \* send_packet: blocks of the frame being sent
    rcvPacket,       \* the packet the receiver is handing to a queue
    calls,           \* calls each sender has made
    inbound,         \* packets the peer has sent
    connects,        \* connections established
    socketBytes,     \* bytes the peer has sent that recv has yet to return
    receiveBuffer,   \* HsmsConnection.receiveBuffer
    delivered,       \* packets handed to on_connection_packet_received, in order
    peerFrames,      \* the frames the peer has sent on this connection, in order
    enabled,              \* HsmsActiveConnection.enabled
    firstConnection,      \* HsmsActiveConnection.firstConnection
    stopConnectionThread, \* HsmsActiveConnection.stopConnectionThread
    connectionThread,     \* HsmsActiveConnection.connectionThread, "none" for None
    cpc,             \* position of each connect thread, "off" when it is not alive
    waited,          \* the connect thread has idled for T5 since its last attempt
    apc,             \* position of the application thread in disable()
    attempts,        \* connect attempts made
    attempted,       \* a connect attempt was made since the last enable()
    callbackHandler, \* SecsHandler._callback_handler: what the callback registered
                     \* under a name does, "unset" if none is registered
    callbackThreads, \* the packets whose callback thread is started and has not run
    sentPackets,     \* the packets handed to connection.send_packet by the SECS and
                     \* GEM layers, in order
    handled,         \* data packets passed up by the HSMS layer
    communicationState, \* GemHandler.communicationState.current
    isHost,          \* GemHandler.isHost
    waitCRATimer,    \* GemHandler.waitCRATimer: "none", "armed", "stopped"
    commDelayTimer,  \* GemHandler.commDelayTimer: "none", "armed", "stopped"
    craExpired,      \* a WAIT_CRA timer has expired and its callback has not run
    delayExpired,    \* a delay timer has expired and its callback has not run
    waitEventList,   \* GemHandler.waitEventList: the waiters' events, in order
    eventSet,        \* the waiters whose threading.Event is set
    wpc,             \* position of each waitfor_communicating caller
    notifyIdx,       \* index of the for loop of _on_state_communicating, 0 if not running
    communicatingFired, \* handler_communicating events fired
    current,         \* Fysom.current
    transition,      \* the attribute Fysom.transition: the pending transition, or
                     \* "none" if the attribute is not there
    stack,           \* the event functions of Fysom being executed, innermost last
    fsmError,        \* how the last call of an event function ended
    callbackCalls,   \* callbacks the state machine has invoked
    fired,           \* calls of event functions
    todo,            \* what the thread of the equipment handler has still to do:
                     \* the rest of the callbacks and of the operation it is in
    handling,        \* the operation in progress or, when none is, the last one:
                     \* its name and the control state it found
    eqSent,          \* messages this operation has handed to the connection
    areYouThere,     \* the local variable response of _on_control_state_attempt_online
    initialControlState,  \* GemEquipmentHandler.initialControlState
    onlineControlState,   \* GemEquipmentHandler.onlineControlState
    registeredReports,    \* keys of GemEquipmentHandler._registered_reports
    registeredEvents,     \* GemEquipmentHandler._registered_collection_events
    ecValues,             \* the values of GemEquipmentHandler._equipment_constants
    alarms,               \* GemEquipmentHandler._alarms
    codecStage,      \* how far the codec has come with its input
    codecVar,        \* the variable that is encoded
    codecInto,       \* the variable that decodes the bytes
    codecData,       \* the bytes encode or encode_item_header returned
    codecResult,     \* what decode or decode_item_header returned or raised
    codecLength,     \* the length given to encode_item_header
    codecFormat,     \* formatCode of the variable whose header is encoded
    linktestTimer,   \* HsmsHandler.linktestTimer: 0 for None, or the timer it refers to
    timers           \* the linktest timers created so far: "armed", "running" (its
                     \* callback is in _on_linktest_timer), "cancelled" or "done"

handlerVars == <<systemCounter, systemQueues, connected, is_connected, is_selected>>
connVars == <<sock, threadRunning, stopThread, disconnecting, connConnected>>
threadVars == <<pc, kind, tmp, system_id, queue, response, outcome, blocksLeft,
                frameBlocks, rcvPacket, calls>>
envVars == <<wire, dispatched, establishing, disconnectCall, inbound, connects>>

rxVars == <<socketBytes, receiveBuffer, delivered, peerFrames>>
\* the state of the layers around the HSMS session
activeVars == <<enabled, firstConnection, stopConnectionThread, connectionThread, cpc,
                waited, apc, attempts, attempted>>
secsVars == <<callbackHandler, callbackThreads, sentPackets, handled>>
gemVars == <<communicationState, isHost, waitCRATimer, commDelayTimer, craExpired,
             delayExpired, waitEventList, eventSet, wpc, notifyIdx, communicatingFired>>
fsmVars == <<current, transition, stack, fsmError, callbackCalls, fired>>
controlVars == <<todo, handling, eqSent, areYouThere, initialControlState, onlineControlState>>
eventVars == <<registeredReports, registeredEvents, ecValues, alarms>>
programVars == <<controlVars, eventVars>>
codecVars == <<codecStage, codecVar, codecInto, codecData, codecResult, codecLength,
               codecFormat>>
linktestVars == <<linktestTimer, timers>>
eqVars == <<fsmVars, programVars, codecVars, linktestVars>>
upperVars == <<secsVars, gemVars, eqVars>>
\* the layers below the state machines of the equipment
baseVars == <<handlerVars, connVars, threadVars, envVars, rxVars, activeVars>>
extVars == <<rxVars, activeVars, upperVars>>

vars == <<handlerVars, connVars, threadVars, envVars, extVars>>

(* --------------------------- initial state ---------------------------- *)

NoQueues == [k \in {} |-> <<"s1", 0>>]

\* HsmsConnection.__init__ and HsmsHandler.__init__
\* no variable
NoVar == [type |-> "", value |-> <<>>]

NoResult == [error |-> "none", text_pos |-> 0, format_code |-> 0, length |-> 0]

\* the codec has no input
CodecIdle ==
    /\ codecStage = "none"
    /\ codecVar = NoVar
    /\ codecInto = NoVar
    /\ codecData = <<>>
    /\ codecResult = NoResult
    /\ codecLength = 0
    /\ codecFormat = 0

InitLayers(counter, host) ==
    /\ systemCounter = counter
    /\ linktestTimer = 0
    /\ timers = <<>>
    /\ systemQueues = NoQueues
    /\ connected = FALSE
    /\ is_connected = FALSE
    /\ is_selected = FALSE
    /\ sock = "none"
    /\ threadRunning = FALSE
    /\ stopThread = FALSE
    /\ disconnecting = FALSE
    /\ connConnected = FALSE
    /\ wire = <<>>
    /\ dispatched = <<>>
    /\ establishing = FALSE
    /\ disconnectCall = FALSE
    /\ pc = [t \in Threads |-> IF t = Rcv THEN "off" ELSE "idle"]
    /\ kind = [t \in Threads |-> "none"]
    /\ tmp = [t \in Threads |-> PyInt(0)]
    /\ system_id = [t \in Threads |-> PyInt(0)]
    /\ queue = [t \in Senders |-> <<>>]
    /\ response = [t \in Senders |-> <<>>]
    /\ outcome = [t \in Senders |-> "none"]
    /\ blocksLeft = [t \in Senders |-> 0]
    /\ frameBlocks = [t \in Senders |-> 0]
    /\ rcvPacket = <<>>
    /\ calls = [t \in Senders |-> 0]
    /\ inbound = 0
    /\ connects = 0
    /\ socketBytes = <<>>
    /\ receiveBuffer = <<>>
    /\ delivered = <<>>
    /\ peerFrames = <<>>
    /\ enabled = FALSE
    /\ firstConnection = TRUE
    /\ stopConnectionThread = FALSE
    /\ connectionThread = "none"
    /\ cpc = [c \in ConnThreads |-> "off"]
    /\ waited = [c \in ConnThreads |-> FALSE]
    /\ apc = "idle"
    /\ attempts = 0
    /\ attempted = FALSE
    /\ callbackHandler = [n \in CallbackNames |-> "unset"]
    /\ callbackThreads = {}
    /\ sentPackets = <<>>
    /\ handled = 0
    /\ communicationState = "DISABLED"
    /\ isHost = host
    /\ waitCRATimer = "none"
    /\ commDelayTimer = "none"
    /\ craExpired = FALSE
    /\ delayExpired = FALSE
    /\ waitEventList = <<>>
    /\ eventSet = {}
    /\ wpc = [w \in Waiters |-> "idle"]
    /\ notifyIdx = 0
    /\ communicatingFired = 0
    /\ current = "none"
    /\ transition = [event |-> "", src |-> "", dst |-> ""]
    /\ stack = <<>>
    /\ fsmError = "none"
    /\ callbackCalls = 0
    /\ fired = 0
    /\ todo = <<>>
    /\ handling = [name |-> "", found |-> "none", args |-> <<>>, values |-> <<>>, alarms |-> <<>>]
    /\ eqSent = <<>>
    /\ areYouThere = [kind |-> "unset", stream |-> 0, function |-> 0]
    /\ initialControlState = "ATTEMPT_ONLINE"
    /\ onlineControlState = "REMOTE"
    /\ registeredReports = {}
    /\ registeredEvents = <<>>
    /\ ecValues = <<>>
    /\ alarms = <<>>

InitFor(counter, host) == InitLayers(counter, host) /\ CodecIdle

InitWith(counter) == InitFor(counter, TRUE)

Init == InitWith(PyInt(0))

(* ---------------------- get_next_system_counter ----------------------- *)

GnscPcs == {"gnsc_load", "gnsc_store", "gnsc_check", "gnsc_reset", "gnsc_ret"}

\* the comparison with >= in place of >: the counter would wrap one value
\* early and never return 2^31 - 1
CounterAtMax(c) == ~PyGT(SystemCounterMax, c)

\* if self.systemCounter > ((2 ** 31) - 1)
CounterPastMax(c) == PyGT(c, SystemCounterMax)

\* where a thread continues once get_next_system_counter has returned
AfterGnsc(t) == IF kind[t] \in WaitKinds THEN "register" ELSE "send"

\* One bytecode-level step of get_next_system_counter in thread t: the load
\* and the store of "self.systemCounter += 1", the comparison, the store of
\* 0, and the load of the value returned.  No lock is held.
GnscStep(t) ==
    /\ pc[t] \in GnscPcs
    /\ CASE pc[t] = "gnsc_load" ->
              /\ tmp' = [tmp EXCEPT ![t] = systemCounter]
              /\ pc' = [pc EXCEPT ![t] = "gnsc_store"]
              /\ UNCHANGED <<systemCounter, system_id>>
         [] pc[t] = "gnsc_store" ->
              /\ systemCounter' = PyAdd1(tmp[t])
              /\ pc' = [pc EXCEPT ![t] = "gnsc_check"]
              /\ UNCHANGED <<tmp, system_id>>
         [] pc[t] = "gnsc_check" ->
              /\ pc' = [pc EXCEPT ![t] =
                          IF CounterPastMax(systemCounter) THEN "gnsc_reset" ELSE "gnsc_ret"]
              /\ UNCHANGED <<systemCounter, tmp, system_id>>
         [] pc[t] = "gnsc_reset" ->
              /\ systemCounter' = PyInt(0)
              /\ pc' = [pc EXCEPT ![t] = "gnsc_ret"]
              /\ UNCHANGED <<tmp, system_id>>
         [] pc[t] = "gnsc_ret" ->
              /\ system_id' = [system_id EXCEPT ![t] = systemCounter]
              /\ pc' = [pc EXCEPT ![t] = AfterGnsc(t)]
              /\ UNCHANGED <<systemCounter, tmp>>
    /\ UNCHANGED <<systemQueues, connected, is_connected, is_selected>>
    /\ UNCHANGED <<connVars, envVars>>
    /\ UNCHANGED <<kind, queue, response, outcome, blocksLeft, frameBlocks, rcvPacket, calls>>
    /\ UNCHANGED extVars

(* ------------------------ HsmsConnection.send_packet ------------------ *)

\* One block of a frame as it reaches the socket: the thread and the call
\* the frame belongs to, the block's index in the frame, and the header.
Block(t, call, i, n, hdr) == [from |-> t, call |-> call, blk |-> i, of |-> n, hdr |-> hdr]

\* select.select([], [self.sock], [], ...) raises (TypeError for None,
\* ValueError for a closed socket) unless the socket is open.
SelectRaises == sock \in {"none", "closed"}

\* the header each send method builds
OutHeader(t) ==
    CASE kind[t] = "data"     -> HsmsStreamFunctionHeader(system_id[t], 1, 1, TRUE, sessionID)
      [] kind[t] = "sf"       -> HsmsStreamFunctionHeader(system_id[t], 1, 1, TRUE, sessionID)
      [] kind[t] = "select"   -> HsmsSelectReqHeader(system_id[t])
      [] kind[t] = "deselect" -> HsmsDeselectReqHeader(system_id[t])
      [] kind[t] = "linktest" -> HsmsLinktestReqHeader(system_id[t])
      [] kind[t] = "separate" -> HsmsSeparateReqHeader(system_id[t])

(* --------------------- the send methods of HsmsHandler ---------------- *)

\* The budget of calls; the application threads run the same code, so the
\* second is let in only once the first has made a call.
MayCall(t) ==
    /\ calls["s1"] + calls["s2"] < MaxCalls
    /\ t = "s2" => calls["s1"] > 0

\* An application thread enters send_and_waitfor_response ("data"),
\* send_select_req, send_deselect_req, send_linktest_req or
\* send_stream_function ("sf") with a message of n blocks.
Call(t, k, n) ==
    /\ pc[t] = "idle"
    /\ k \in {"data", "sf"} \/ n = 1
    /\ pc' = [pc EXCEPT ![t] = "gnsc_load"]
    /\ kind' = [kind EXCEPT ![t] = k]
    /\ calls' = [calls EXCEPT ![t] = @ + 1]
    /\ outcome' = [outcome EXCEPT ![t] = "pending"]
    /\ response' = [response EXCEPT ![t] = <<>>]
    /\ frameBlocks' = [frameBlocks EXCEPT ![t] = n]
    /\ blocksLeft' = [blocksLeft EXCEPT ![t] = n]
    /\ UNCHANGED <<handlerVars, connVars, envVars>>
    /\ UNCHANGED <<tmp, system_id, queue, rcvPacket>>
    /\ UNCHANGED extVars

\* the queue object thread t created in its current call
QueueOf(t) == <<t, calls[t]>>

\* self._systemQueues[system_id] = queue.Queue()
PutQueue(table, id, q) ==
    [k \in DOMAIN table \cup {id} |-> IF k = id THEN q ELSE table[k]]

\* del self._systemQueues[system_id]
DelQueue(table, id) == [k \in DOMAIN table \ {id} |-> table[k]]

\* _get_queue_for_system
Register(t) ==
    /\ t \in Senders
    /\ pc[t] = "register"
    /\ systemQueues' = PutQueue(systemQueues, system_id[t], QueueOf(t))
    /\ queue' = [queue EXCEPT ![t] = <<>>]
    /\ pc' = [pc EXCEPT ![t] = "send"]
    /\ UNCHANGED <<systemCounter, connected, is_connected, is_selected>>
    /\ UNCHANGED <<connVars, envVars>>
    /\ UNCHANGED <<kind, tmp, system_id, response, outcome, blocksLeft, frameBlocks,
                   rcvPacket, calls>>
    /\ UNCHANGED extVars

\* send_packet in a send method, one block per step.  select.select raises
\* when the socket is not open and the exception leaves the send method;
\* sock.send either takes the block or fails with an OSError other than
\* EWOULDBLOCK, and send_packet returns False.
SendBlock(t, ok) ==
    /\ t \in Senders
    /\ pc[t] = "send"
    /\ IF SelectRaises
         THEN /\ pc' = [pc EXCEPT ![t] = "idle"]
              /\ outcome' = [outcome EXCEPT ![t] = "raised"]
              /\ UNCHANGED <<wire, blocksLeft>>
         ELSE IF ok /\ sock = "open"
           THEN /\ wire' = Append(wire, Block(t, calls[t], frameBlocks[t] - blocksLeft[t] + 1,
                                              frameBlocks[t], OutHeader(t)))
                /\ blocksLeft' = [blocksLeft EXCEPT ![t] = @ - 1]
                /\ IF blocksLeft[t] > 1
                     THEN UNCHANGED <<pc, outcome>>
                     ELSE IF kind[t] \in WaitKinds
                       THEN /\ pc' = [pc EXCEPT ![t] = "wait"]
                            /\ UNCHANGED outcome
                       ELSE /\ pc' = [pc EXCEPT ![t] = "idle"]
                            /\ outcome' = [outcome EXCEPT ![t] = "sent"]
           ELSE /\ UNCHANGED <<wire, blocksLeft>>
                /\ IF kind[t] \in WaitKinds
                     THEN /\ pc' = [pc EXCEPT ![t] = "remove"]
                          /\ UNCHANGED outcome
                     ELSE /\ pc' = [pc EXCEPT ![t] = "idle"]
                          /\ outcome' = [outcome EXCEPT ![t] = "failed"]
    /\ UNCHANGED <<handlerVars, connVars>>
    /\ UNCHANGED <<dispatched, establishing, disconnectCall, inbound, connects>>
    /\ UNCHANGED <<kind, tmp, system_id, queue, response, frameBlocks, rcvPacket, calls>>
    /\ UNCHANGED extVars

\* response_queue.get(True, T): the packet at the head of the queue
WaitGet(t) ==
    /\ t \in Senders
    /\ pc[t] = "wait"
    /\ queue[t] # <<>>
    /\ response' = [response EXCEPT ![t] = <<Head(queue[t])>>]
    /\ queue' = [queue EXCEPT ![t] = Tail(@)]
    /\ pc' = [pc EXCEPT ![t] = "remove"]
    /\ UNCHANGED <<handlerVars, connVars, envVars>>
    /\ UNCHANGED <<kind, tmp, system_id, outcome, blocksLeft, frameBlocks, rcvPacket, calls>>
    /\ UNCHANGED extVars

\* response_queue.get(True, T) raises queue.Empty after T3 (data) or T6
\* (control) seconds with nothing in the queue: response = None
WaitTimeout(t) ==
    /\ t \in Senders
    /\ pc[t] = "wait"
    /\ queue[t] = <<>>
    /\ response' = [response EXCEPT ![t] = <<>>]
    /\ pc' = [pc EXCEPT ![t] = "remove"]
    /\ UNCHANGED <<handlerVars, connVars, envVars>>
    /\ UNCHANGED <<kind, tmp, system_id, queue, outcome, blocksLeft, frameBlocks,
                   rcvPacket, calls>>
    /\ UNCHANGED extVars

\* _remove_queue, then return response; del raises KeyError when the entry
\* is gone
RemoveQueue(t) ==
    /\ t \in Senders
    /\ pc[t] = "remove"
    /\ IF system_id[t] \in DOMAIN systemQueues
         THEN /\ systemQueues' = DelQueue(systemQueues, system_id[t])
              /\ outcome' = [outcome EXCEPT ![t] =
                               IF response[t] = <<>> THEN "null" ELSE "response"]
         ELSE /\ UNCHANGED systemQueues
              /\ outcome' = [outcome EXCEPT ![t] = "raised"]
    /\ pc' = [pc EXCEPT ![t] = "idle"]
    /\ UNCHANGED <<systemCounter, connected, is_connected, is_selected>>
    /\ UNCHANGED <<connVars, envVars>>
    /\ UNCHANGED <<kind, tmp, system_id, queue, response, blocksLeft, frameBlocks,
                   rcvPacket, calls>>
    /\ UNCHANGED extVars

(* ------------------------- connection life cycle ---------------------- *)

\* _start_receiver: the connect (active) or accept (passive) succeeded and
\* the receiver thread is started; on_connection_established is still to
\* be called by the connecting thread.
StartReceiver ==
    /\ connects' = connects + 1
    /\ sock' = "open"
    /\ connConnected' = TRUE
    /\ threadRunning' = TRUE
    /\ pc' = [pc EXCEPT ![Rcv] = "loop"]
    /\ wire' = <<>>
    /\ establishing' = TRUE
    /\ UNCHANGED <<handlerVars, stopThread, disconnecting>>
    /\ UNCHANGED <<dispatched, disconnectCall, inbound>>
    /\ UNCHANGED <<kind, tmp, system_id, queue, response, outcome, blocksLeft, frameBlocks,
                   rcvPacket, calls>>
    /\ UNCHANGED <<rxVars, upperVars>>

\* A connection is established, whichever thread connected or accepted.
Connect ==
    /\ pc[Rcv] = "off"
    /\ ~establishing
    /\ connects < MaxConnects
    /\ StartReceiver
    /\ UNCHANGED <<activeVars, upperVars>>

\* HsmsHandler.on_connection_established
OnConnectionEstablished ==
    /\ establishing
    /\ connected' = TRUE
    /\ is_connected' = TRUE
    /\ establishing' = FALSE
    /\ UNCHANGED <<systemCounter, systemQueues, is_selected>>
    /\ UNCHANGED <<connVars, threadVars>>
    /\ UNCHANGED <<wire, dispatched, disconnectCall, inbound, connects>>
    /\ UNCHANGED extVars

\* __receiver_thread_read_data: recv returned no data, the peer closed
PeerClose ==
    /\ pc[Rcv] = "loop"
    /\ ~stopThread
    /\ connConnected' = FALSE
    /\ stopThread' = TRUE
    /\ UNCHANGED <<handlerVars, threadVars, envVars>>
    /\ UNCHANGED <<sock, threadRunning, disconnecting>>
    /\ UNCHANGED extVars

\* HsmsConnection.disconnect, up to its wait for the receiver to stop
Disconnect ==
    /\ ~disconnectCall
    /\ threadRunning
    /\ disconnecting' = TRUE
    /\ stopThread' = TRUE
    /\ disconnectCall' = TRUE
    /\ UNCHANGED <<handlerVars, threadVars>>
    /\ UNCHANGED <<sock, threadRunning, connConnected>>
    /\ UNCHANGED <<wire, dispatched, establishing, inbound, connects>>
    /\ UNCHANGED extVars

\* HsmsConnection.disconnect: the receiver stopped
DisconnectReturn ==
    /\ disconnectCall
    /\ ~threadRunning
    /\ disconnecting' = FALSE
    /\ disconnectCall' = FALSE
    /\ UNCHANGED <<handlerVars, threadVars>>
    /\ UNCHANGED <<sock, threadRunning, stopThread, connConnected>>
    /\ UNCHANGED <<wire, dispatched, establishing, inbound, connects>>
    /\ UNCHANGED extVars

\* The receiver leaves its loop and calls on_connection_before_closed,
\* which calls send_separate_req.
RcvExit ==
    /\ pc[Rcv] = "loop"
    /\ stopThread
    /\ pc' = [pc EXCEPT ![Rcv] = "gnsc_load"]
    /\ kind' = [kind EXCEPT ![Rcv] = "separate"]
    /\ UNCHANGED <<handlerVars, connVars, envVars>>
    /\ UNCHANGED <<tmp, system_id, queue, response, outcome, blocksLeft, frameBlocks,
                   rcvPacket, calls>>
    /\ UNCHANGED extVars

\* a frame of one block written by the receiver thread, if sock.send took it
RcvWrite(ok, hdr) == IF ok THEN Append(wire, Block(Rcv, inbound, 1, 1, hdr)) ELSE wire

\* send_separate_req: send_packet
RcvSendSeparate(ok) ==
    /\ pc[Rcv] = "send"
    /\ wire' = RcvWrite(ok, OutHeader(Rcv))
    /\ pc' = [pc EXCEPT ![Rcv] = "close"]
    /\ UNCHANGED <<handlerVars, connVars>>
    /\ UNCHANGED <<dispatched, establishing, disconnectCall, inbound, connects>>
    /\ UNCHANGED <<kind, tmp, system_id, queue, response, outcome, blocksLeft, frameBlocks,
                   rcvPacket, calls>>
    /\ UNCHANGED extVars

\* HsmsHandler.on_connection_closed
OnConnectionClosed ==
    /\ connected' = FALSE
    /\ is_connected' = FALSE
    /\ UNCHANGED <<systemCounter, systemQueues, is_selected>>

\* __receiver_thread: self.sock.close(), then on_connection_closed
RcvClose ==
    /\ pc[Rcv] = "close"
    /\ sock' = "closed"
    /\ OnConnectionClosed
    /\ pc' = [pc EXCEPT ![Rcv] = "reset"]
    /\ UNCHANGED <<threadRunning, stopThread, disconnecting, connConnected>>
    /\ UNCHANGED envVars
    /\ UNCHANGED <<kind, tmp, system_id, queue, response, outcome, blocksLeft, frameBlocks,
                   rcvPacket, calls>>
    /\ UNCHANGED extVars

\* __receiver_thread: reset all flags and clear the receive buffer; what the
\* peer sent on the closed socket is lost with it.  Then
\* _on_hsms_connection_close reads self.enabled, and starts a connect
\* thread in a step of its own if the connection is enabled.
RcvReset ==
    /\ pc[Rcv] = "reset"
    /\ connConnected' = FALSE
    /\ threadRunning' = FALSE
    /\ stopThread' = FALSE
    /\ pc' = [pc EXCEPT ![Rcv] = IF enabled THEN "notify" ELSE "off"]
    /\ UNCHANGED <<handlerVars, envVars>>
    /\ UNCHANGED <<sock, disconnecting>>
    /\ UNCHANGED <<kind, tmp, system_id, queue, response, outcome, blocksLeft, frameBlocks,
                   rcvPacket, calls>>
    /\ UNCHANGED <<activeVars, upperVars>>
    /\ receiveBuffer' = <<>>
    /\ socketBytes' = <<>>
    /\ delivered' = <<>>
    /\ peerFrames' = <<>>

(* ------------------- on_connection_packet_received -------------------- *)

\* system ids the peer puts in its packets: those of the pending requests,
\* and that of its own first message
PeerSystems == {PyInt(1)} \cup DOMAIN systemQueues

\* the packets the peer may send: every control SType, an S1F1 primary with
\* the W bit, and an S1F2 reply
PeerPackets ==
    UNION {{HsmsSelectReqHeader(y), HsmsSelectRspHeader(y), HsmsDeselectReqHeader(y),
            HsmsDeselectRspHeader(y), HsmsLinktestReqHeader(y), HsmsLinktestRspHeader(y),
            HsmsRejectReqHeader(y, 1, RejectReasonNotReady), HsmsSeparateReqHeader(y),
            HsmsStreamFunctionHeader(y, 1, 1, TRUE, sessionID),
            HsmsStreamFunctionHeader(y, 1, 2, FALSE, sessionID)} : y \in PeerSystems}

\* if not self.is_connected and not self.is_selected
RejectsData == ~is_connected /\ ~is_selected

\* if packet.header.system in self._systemQueues
Awaited(p) == p.system \in DOMAIN systemQueues

\* what the handler sends in answer to packet p, as a sequence of headers
Answer(p) ==
    CASE p.sType = 1 ->
           IF disconnecting THEN <<HsmsRejectReqHeader(p.system, p.sType, RejectReasonNotReady)>>
                            ELSE <<HsmsSelectRspHeader(p.system)>>
      [] p.sType = 3 ->
           IF disconnecting THEN <<HsmsRejectReqHeader(p.system, p.sType, RejectReasonNotReady)>>
                            ELSE <<HsmsDeselectRspHeader(p.system)>>
      [] p.sType = 5 ->
           IF disconnecting THEN <<HsmsRejectReqHeader(p.system, p.sType, RejectReasonNotReady)>>
                            ELSE <<HsmsLinktestRspHeader(p.system)>>
      [] p.sType = 0 ->
           IF RejectsData THEN <<HsmsRejectReqHeader(p.system, p.sType, RejectReasonNotReady)>>
                          ELSE <<>>
      [] OTHER -> <<>>

\* is_selected once packet p has been handled
SelectedAfter(p) ==
    CASE p.sType = 1 -> IF disconnecting THEN is_selected ELSE TRUE
      [] p.sType = 2 -> TRUE
      [] p.sType = 3 -> IF disconnecting THEN is_selected ELSE FALSE
      [] p.sType = 4 -> FALSE
      [] OTHER -> is_selected

\* packet p goes to the queue registered under its system id
ToQueue(p) ==
    CASE p.sType \in {1, 3, 5} -> FALSE
      [] p.sType = 0 -> ~RejectsData /\ Awaited(p)
      [] OTHER -> Awaited(p)

\* a dispatch that does not look at _systemQueues first: every data packet
\* of a connected session would go to the stream/function dispatch
ToHandlerUnchecked(p) == p.sType = 0 /\ ~RejectsData

\* packet p goes to _on_hsms_packet_received, the stream/function dispatch
ToHandler(p) == p.sType = 0 /\ ~RejectsData /\ ~Awaited(p)

\* The receiver decodes the next packet of the peer and calls
\* on_connection_packet_received up to the look-up in _systemQueues.  It
\* reads nothing more once recv has reported the close; a disconnect() of
\* another thread may set stopThread while a packet is being read.
RcvPacket(p, ok) ==
    /\ pc[Rcv] = "loop"
    /\ connConnected
    /\ inbound < MaxInbound
    /\ p \in PeerPackets
    /\ inbound' = inbound + 1
    /\ is_selected' = SelectedAfter(p)
    /\ wire' = IF Answer(p) = <<>> THEN wire
               ELSE IF ok THEN Append(wire, Block(Rcv, inbound + 1, 1, 1, Answer(p)[1]))
               ELSE wire
    /\ dispatched' = IF ToHandler(p) THEN Append(dispatched, p) ELSE dispatched
    /\ IF ToQueue(p)
         THEN /\ pc' = [pc EXCEPT ![Rcv] = "put"]
              /\ rcvPacket' = <<p>>
         ELSE UNCHANGED <<pc, rcvPacket>>
    /\ UNCHANGED <<systemCounter, systemQueues, connected, is_connected>>
    /\ UNCHANGED <<connVars, establishing, disconnectCall, connects>>
    /\ UNCHANGED <<kind, tmp, system_id, queue, response, outcome, blocksLeft, frameBlocks,
                   calls>>
    /\ UNCHANGED extVars

\* self._systemQueues[packet.header.system].put_nowait(packet): KeyError
\* when the entry was removed since the look-up, and the connection logs
\* and drops the exception; a queue object no thread holds any more takes
\* the packet with it.
RcvPut ==
    /\ pc[Rcv] = "put"
    /\ LET p == rcvPacket[1]
       IN  IF p.system \in DOMAIN systemQueues
                /\ systemQueues[p.system] = QueueOf(systemQueues[p.system][1])
             THEN queue' = [queue EXCEPT ![systemQueues[p.system][1]] = Append(@, p)]
             ELSE UNCHANGED queue
    /\ rcvPacket' = <<>>
    /\ pc' = [pc EXCEPT ![Rcv] = "loop"]
    /\ UNCHANGED <<handlerVars, connVars, envVars>>
    /\ UNCHANGED <<kind, tmp, system_id, response, outcome, blocksLeft, frameBlocks, calls>>
    /\ UNCHANGED extVars

(* ----------------------- frames and the receive buffer ----------------- *)

\* struct.pack(">H", n)
PackH(n) == <<n \div 256, n % 256>>

\* struct.pack(">L", n) of a frame length
PackL(n) == <<n \div 2^24, (n \div 2^16) % 256, (n \div 256) % 256, n % 256>>

\* struct.unpack(">L", b) of a frame length
UnpackL(b) == ((b[1] * 256 + b[2]) * 256 + b[3]) * 256 + b[4]

\* struct.pack(">L", system) of a system id <<hi, lo>>
PackSystem(v) ==
    <<v[1] * 64 + v[2] \div 2^24, (v[2] \div 2^16) % 256, (v[2] \div 256) % 256, v[2] % 256>>

\* struct.unpack(">L", b) as a system id <<hi, lo>>
UnpackSystem(b) == <<b[1] \div 64, (((b[1] % 64) * 256 + b[2]) * 256 + b[3]) * 256 + b[4]>>

\* header_stream |= 0b10000000
WithWBit(stream) == IF (stream \div 128) % 2 = 1 THEN stream ELSE stream + 128

\* HsmsHeader.encode
HeaderEncode(h) ==
    PackH(h.sessionID)
      \o <<IF h.requireResponse THEN WithWBit(h.stream) ELSE h.stream,
           h.function, h.pType, h.sType>>
      \o PackSystem(h.system)

\* HsmsPacket.encode
PacketEncode(header, data) == PackL(10 + Len(data)) \o HeaderEncode(header) \o data

\* HsmsPacket.decode raises struct.error: the format ">LHBBBBL<n>s" has a
\* negative n when the frame is shorter than 14 bytes
DecodeRaises(text) == Len(text) < 14

\* HsmsPacket.decode
PacketDecode(text) ==
    [header |-> [sessionID |-> text[5] * 256 + text[6],
                 requireResponse |-> ((text[7] \div 128) % 2 = 1),
                 stream |-> text[7] % 128,
                 function |-> text[8],
                 pType |-> text[9],
                 sType |-> text[10],
                 system |-> UnpackSystem(SubSeq(text, 11, 14))],
     data |-> SubSeq(text, 15, Len(text))]

\* the frames a conforming peer sends: a Linktest.req and an S1F1 with one
\* byte of data, each with a system id of its own
WellFormedFrames ==
    {PacketEncode(HsmsLinktestReqHeader(PyInt(1)), <<>>),
     PacketEncode(HsmsStreamFunctionHeader(PyInt(2), 1, 1, TRUE, sessionID), <<7>>)}

\* frames whose length prefix is smaller than the 10-byte header
ShortFrames == {PackL(0), PackL(1) \o <<7>>}

\* The peer writes frame f to the socket.
PeerSend(f) ==
    /\ pc[Rcv] \in {"loop", "process"}
    /\ connConnected
    /\ Len(peerFrames) < MaxFrames
    /\ socketBytes' = socketBytes \o f
    /\ peerFrames' = Append(peerFrames, f)
    /\ UNCHANGED <<handlerVars, connVars, threadVars, envVars>>
    /\ UNCHANGED <<receiveBuffer, delivered>>
    /\ UNCHANGED <<activeVars, upperVars>>

\* __receiver_thread_read_data: recv returns the next k bytes, which are
\* added to the receive buffer
RcvRecv(k) ==
    /\ pc[Rcv] = "loop"
    /\ ~stopThread
    /\ ~disconnecting
    /\ k \in 1..Len(socketBytes)
    /\ receiveBuffer' = receiveBuffer \o SubSeq(socketBytes, 1, k)
    /\ socketBytes' = SubSeq(socketBytes, k + 1, Len(socketBytes))
    /\ pc' = [pc EXCEPT ![Rcv] = "process"]
    /\ UNCHANGED <<handlerVars, connVars, envVars>>
    /\ UNCHANGED <<kind, tmp, system_id, queue, response, outcome, blocksLeft, frameBlocks,
                   rcvPacket, calls>>
    /\ UNCHANGED <<delivered, peerFrames>>
    /\ UNCHANGED <<activeVars, upperVars>>

\* the length prefix taken for the length of the whole frame, without the 4
\* bytes of the prefix itself
PayloadLength(buf) == UnpackL(SubSeq(buf, 1, 4))

\* length = struct.unpack(">L", self.receiveBuffer[0:4])[0] + 4
FrameLength(buf) == UnpackL(SubSeq(buf, 1, 4)) + 4

\* the buffer starts with a whole frame
HasFrame(buf) == Len(buf) >= 4 /\ Len(buf) >= FrameLength(buf)

\* One call of _process_receive_buffer in "while self._process_receive_buffer()".
\* Without a whole frame in the buffer it returns False.  Otherwise the
\* frame is taken from the buffer and decoded, the packet is handed to
\* on_connection_packet_received (whose exceptions are caught here), and the
\* loop goes on while bytes are left.  An exception of HsmsPacket.decode is
\* caught only in __receiver_thread, which goes on to close the connection.
ProcessReceiveBuffer ==
    /\ pc[Rcv] = "process"
    /\ IF ~HasFrame(receiveBuffer)
         THEN /\ pc' = [pc EXCEPT ![Rcv] = "loop"]
              /\ UNCHANGED <<receiveBuffer, delivered, kind>>
         ELSE LET length == FrameLength(receiveBuffer)
                  data == SubSeq(receiveBuffer, 1, length)
                  rest == SubSeq(receiveBuffer, length + 1, Len(receiveBuffer))
              IN  /\ receiveBuffer' = rest
                  /\ IF DecodeRaises(data)
                       THEN /\ pc' = [pc EXCEPT ![Rcv] = "gnsc_load"]
                            /\ kind' = [kind EXCEPT ![Rcv] = "separate"]
                            /\ UNCHANGED delivered
                       ELSE /\ delivered' = Append(delivered, PacketDecode(data))
                            /\ pc' = [pc EXCEPT ![Rcv] =
                                        IF rest # <<>> THEN "process" ELSE "loop"]
                            /\ UNCHANGED kind
    /\ UNCHANGED <<handlerVars, connVars, envVars>>
    /\ UNCHANGED <<tmp, system_id, queue, response, outcome, blocksLeft, frameBlocks,
                   rcvPacket, calls>>
    /\ UNCHANGED <<socketBytes, peerFrames>>
    /\ UNCHANGED <<activeVars, upperVars>>

(* ------------------------- HsmsActiveConnection ------------------------ *)

\* the thread slot __start_connect_thread uses for the thread it creates
FreeThread == IF cpc["c1"] = "off" THEN "c1" ELSE "c2"

\* __start_connect_thread: self.connectionThread = threading.Thread(...);
\* self.connectionThread.start()
StartConnectThread ==
    /\ cpc[FreeThread] = "off"
    /\ connectionThread' = FreeThread
    /\ cpc' = [cpc EXCEPT ![FreeThread] = "check_first"]
    /\ waited' = [waited EXCEPT ![FreeThread] = FALSE]

\* enable(): only if the connection is not enabled already
Enable ==
    /\ apc = "idle"
    /\ ~enabled
    /\ firstConnection' = TRUE
    /\ enabled' = TRUE
    /\ StartConnectThread
    /\ attempted' = FALSE
    /\ UNCHANGED <<stopConnectionThread, apc, attempts>>
    /\ UNCHANGED <<handlerVars, connVars, threadVars, envVars, rxVars, upperVars>>

\* disable(): if self.enabled: self.enabled = False
DisableBegin ==
    /\ apc = "idle"
    /\ enabled
    /\ enabled' = FALSE
    /\ apc' = "dis_alive"
    /\ UNCHANGED <<firstConnection, stopConnectionThread, connectionThread, cpc, waited,
                   attempts, attempted>>
    /\ UNCHANGED <<handlerVars, connVars, threadVars, envVars, rxVars, upperVars>>

\* self.connectionThread and self.connectionThread.is_alive()
ConnectionThreadAlive == connectionThread # "none" /\ cpc[connectionThread] # "off"

\* disable(): if the connect thread is alive: self.stopConnectionThread = True
DisableStopThread ==
    /\ apc = "dis_alive"
    /\ stopConnectionThread' = (ConnectionThreadAlive \/ stopConnectionThread)
    /\ apc' = "dis_wait"
    /\ UNCHANGED <<enabled, firstConnection, connectionThread, cpc, waited, attempts,
                   attempted>>
    /\ UNCHANGED <<handlerVars, connVars, threadVars, envVars, rxVars, upperVars>>

\* disable(): while self.stopConnectionThread: time.sleep(0.2)
DisableWait ==
    /\ apc = "dis_wait"
    /\ ~stopConnectionThread
    /\ apc' = "dis_disconnect"
    /\ UNCHANGED <<enabled, firstConnection, stopConnectionThread, connectionThread, cpc,
                   waited, attempts, attempted>>
    /\ UNCHANGED <<handlerVars, connVars, threadVars, envVars, rxVars, upperVars>>

\* disable(): self.disconnect(), which returns at once if no receiver
\* thread is running and otherwise asks it to stop
DisableDisconnect ==
    /\ apc = "dis_disconnect"
    /\ IF threadRunning
         THEN /\ disconnecting' = TRUE
              /\ stopThread' = TRUE
              /\ apc' = "dis_join"
         ELSE /\ apc' = "idle"
              /\ UNCHANGED <<disconnecting, stopThread>>
    /\ UNCHANGED <<sock, threadRunning, connConnected>>
    /\ UNCHANGED <<enabled, firstConnection, stopConnectionThread, connectionThread, cpc,
                   waited, attempts, attempted>>
    /\ UNCHANGED <<handlerVars, threadVars, envVars, rxVars, upperVars>>

\* disconnect(): while self.threadRunning: pass; self.disconnecting = False
DisableJoin ==
    /\ apc = "dis_join"
    /\ ~threadRunning
    /\ disconnecting' = FALSE
    /\ apc' = "idle"
    /\ UNCHANGED <<sock, threadRunning, stopThread, connConnected>>
    /\ UNCHANGED <<enabled, firstConnection, stopConnectionThread, connectionThread, cpc,
                   waited, attempts, attempted>>
    /\ UNCHANGED <<handlerVars, threadVars, envVars, rxVars, upperVars>>

\* __connect_thread: if not self.firstConnection
CheckFirst(c) ==
    /\ cpc[c] = "check_first"
    /\ cpc' = [cpc EXCEPT ![c] = IF firstConnection THEN "clear_first" ELSE "idle_first"]
    /\ UNCHANGED <<enabled, firstConnection, stopConnectionThread, connectionThread, waited,
                   apc, attempts, attempted>>
    /\ UNCHANGED <<handlerVars, connVars, threadVars, envVars, rxVars, upperVars>>

\* __idle(T5): the last look at self.stopConnectionThread of the wait.  If
\* the flag is set it is cleared and the connect thread returns; otherwise
\* the T5 wait is over.
Idle(c) ==
    /\ cpc[c] \in {"idle_first", "idle_retry"}
    /\ IF stopConnectionThread
         THEN /\ stopConnectionThread' = FALSE
              /\ cpc' = [cpc EXCEPT ![c] = "off"]
              /\ UNCHANGED waited
         ELSE /\ cpc' = [cpc EXCEPT ![c] = IF cpc[c] = "idle_first" THEN "clear_first"
                                                                    ELSE "connect"]
              /\ waited' = [waited EXCEPT ![c] = TRUE]
              /\ UNCHANGED stopConnectionThread
    /\ UNCHANGED <<enabled, firstConnection, connectionThread, apc, attempts, attempted>>
    /\ UNCHANGED <<handlerVars, connVars, threadVars, envVars, rxVars, upperVars>>

\* __connect_thread: self.firstConnection = False
ClearFirst(c) ==
    /\ cpc[c] = "clear_first"
    /\ firstConnection' = FALSE
    /\ cpc' = [cpc EXCEPT ![c] = "connect"]
    /\ UNCHANGED <<enabled, stopConnectionThread, connectionThread, waited, apc, attempts,
                   attempted>>
    /\ UNCHANGED <<handlerVars, connVars, threadVars, envVars, rxVars, upperVars>>

\* what one call of __connect leaves in the attributes of the connect thread
Attempted(c, next) ==
    /\ attempts' = attempts + 1
    /\ attempted' = TRUE
    /\ waited' = [waited EXCEPT ![c] = FALSE]
    /\ cpc' = [cpc EXCEPT ![c] = next]
    /\ UNCHANGED <<enabled, firstConnection, stopConnectionThread, connectionThread, apc>>

\* __connect: a new socket, self.sock.connect(...).  On socket.error it
\* returns False and the thread idles for T5; on success it starts the
\* receiver and the connect thread ends.  The peer accepts only when the
\* previous connection is closed.
ConnectAttempt(c, ok) ==
    /\ cpc[c] = "connect"
    /\ attempts < MaxAttempts
    /\ IF ok
         THEN /\ pc[Rcv] = "off"
              /\ ~establishing
              /\ connects < MaxConnects
              /\ StartReceiver
              /\ Attempted(c, "off")
         ELSE /\ sock' = "unconnected"
              /\ Attempted(c, "idle_retry")
              /\ UNCHANGED <<threadRunning, stopThread, disconnecting, connConnected>>
              /\ UNCHANGED <<handlerVars, threadVars, envVars, rxVars, upperVars>>

\* _on_hsms_connection_close, called last by the receiver thread:
\* if self.enabled: self.__start_connect_thread().  self.enabled was read
\* when the receiver reset its flags.
OnHsmsConnectionClose ==
    /\ pc[Rcv] = "notify"
    /\ StartConnectThread
    /\ pc' = [pc EXCEPT ![Rcv] = "off"]
    /\ UNCHANGED <<enabled, firstConnection, stopConnectionThread, apc, attempts, attempted>>
    /\ UNCHANGED <<handlerVars, connVars, envVars, rxVars, upperVars>>
    /\ UNCHANGED <<kind, tmp, system_id, queue, response, outcome, blocksLeft, frameBlocks,
                   rcvPacket, calls>>

(* ------------------------------ SecsHandler ---------------------------- *)

\* the data messages the peer sends to the SECS handler
DataPackets ==
    {HsmsStreamFunctionHeader(PyInt(sys), n[1], n[2], w, sessionID) :
        sys \in {1, 2}, n \in CallbackNames, w \in BOOLEAN}

\* secsStreamsFunctions: the streams that have a function 0
AbortStreams == {0, 1, 2, 5, 6, 9, 10, 12, 14}

\* what a callback can do: raise, return None, return the reply message
CallbackBehaviours == {"raises", "none", "reply"}

\* register_stream_function / unregister_stream_function
RegisterStreamFunction(n, b) ==
    /\ callbackHandler[n] # b
    /\ callbackHandler' = [callbackHandler EXCEPT ![n] = b]
    /\ UNCHANGED <<callbackThreads, sentPackets, handled>>
    /\ UNCHANGED <<handlerVars, connVars, threadVars, envVars, rxVars, activeVars, gemVars, eqVars>>

\* threading.Thread(target=self._handle_stream_function, args=(packet, )).start()
StartCallbackThread(p) ==
    /\ callbackThreads' = callbackThreads \cup {p}
    /\ handled' = handled + 1

\* SecsHandler._on_hsms_packet_received
SecsPacketReceived(p) ==
    /\ handled < MaxHandled
    /\ p \notin callbackThreads
    /\ StartCallbackThread(p)
    /\ UNCHANGED <<callbackHandler, sentPackets>>
    /\ UNCHANGED <<handlerVars, connVars, threadVars, envVars, rxVars, activeVars, gemVars, eqVars>>

\* the items of a message body the model tells apart: COMMACK, the list
\* MDLN, SOFTREV, and the bytes of a binary item, each empty if absent
NoItems == [COMMACK |-> <<>>, MDLN |-> <<>>, body |-> <<>>]

\* send_response(function, system): the packet it sends
Response(stream, function, system, data) ==
    [header |-> HsmsStreamFunctionHeader(system, stream, function, FALSE, sessionID),
     data |-> data]

\* the name under which the callback of a packet is registered
CallbackName(p) == <<p.stream, p.function>>

\* the packets _handle_stream_function sends for packet p
HandlerSends(p) ==
    LET b == callbackHandler[CallbackName(p)] IN
    IF b = "unset"
      THEN IF p.requireResponse
             THEN <<Response(9, 5, p.system, [NoItems EXCEPT !.body = HeaderEncode(p)])>>
             ELSE <<>>
      ELSE IF b = "reply"
        THEN <<Response(p.stream, p.function + 1, p.system, NoItems)>>
        ELSE IF b = "raises" /\ p.stream \in AbortStreams
          THEN <<Response(p.stream, 0, p.system, NoItems)>>
          ELSE <<>>

\* _handle_stream_function, run by the callback thread of packet p
HandleStreamFunction(p) ==
    /\ p \in callbackThreads
    /\ callbackThreads' = callbackThreads \ {p}
    /\ sentPackets' = sentPackets \o HandlerSends(p)
    /\ UNCHANGED <<callbackHandler, handled>>
    /\ UNCHANGED <<handlerVars, connVars, threadVars, envVars, rxVars, activeVars, gemVars, eqVars>>

(* ------------------------------- GemHandler ---------------------------- *)

\* GemHandler.MDLN and GemHandler.SOFTREV
MDLN == "secsgem"
SOFTREV == "0.1.0"

\* get_next_system_counter, run by one thread without interruption
GetNextSystemCounter(c) == LET n == PyAdd1(c) IN IF CounterPastMax(n) THEN PyInt(0) ELSE n

\* the messages the peer sends to the GEM handler: S1F13, S1F14 and S1F1
GemPackets ==
    {HsmsStreamFunctionHeader(PyInt(1), 1, 13, TRUE, sessionID),
     HsmsStreamFunctionHeader(PyInt(1), 1, 14, FALSE, sessionID),
     HsmsStreamFunctionHeader(PyInt(2), 1, 1, TRUE, sessionID)}

\* S1F13 as _on_state_wait_cra sends it with send_stream_function
EstablishCommunicationRequest ==
    [header |-> HsmsStreamFunctionHeader(GetNextSystemCounter(systemCounter), 1, 13, TRUE,
                                         sessionID),
     data |-> IF isHost THEN NoItems ELSE [NoItems EXCEPT !.MDLN = <<MDLN, SOFTREV>>]]

\* S1F14 as _on_hsms_packet_received sends it in reply to packet p;
\* on_commack_requested returns 0
EstablishCommunicationAck(p) ==
    Response(1, 14, p.system,
             [NoItems EXCEPT !.COMMACK = <<0>>,
                             !.MDLN = IF isHost THEN <<>> ELSE <<MDLN, SOFTREV>>])

\* a timer that is not cancelled
NotCancelled(timer) == timer

\* threading.Timer.cancel()
Cancel(timer) == IF timer = "none" THEN "none" ELSE "stopped"

\* the transition into WAIT_CRA with its callback _on_state_wait_cra: the
\* WAIT_CRA timer is started and S1F13 is sent
EnterWaitCra ==
    /\ Len(sentPackets) < MaxSent
    /\ communicationState' = "WAIT_CRA"
    /\ waitCRATimer' = "armed"
    /\ systemCounter' = GetNextSystemCounter(systemCounter)
    /\ sentPackets' = Append(sentPackets, EstablishCommunicationRequest)

\* the transition into COMMUNICATING with _on_state_leave_wait_cra and the
\* start of _on_state_communicating: handler_communicating is fired and the
\* loop over waitEventList begins
EnterCommunicating ==
    /\ waitCRATimer' = Cancel(waitCRATimer)
    /\ communicationState' = "COMMUNICATING"
    /\ communicatingFired' = communicatingFired + 1
    /\ notifyIdx' = 1

\* GemHandler.enable: self.communicationState.enable(), forwarded from
\* ENABLED to NOT_COMMUNICATING
CommunicationStateEnable ==
    /\ communicationState = "DISABLED"
    /\ communicationState' = "NOT_COMMUNICATING"
    /\ UNCHANGED <<isHost, waitCRATimer, commDelayTimer, craExpired, delayExpired,
                   waitEventList, eventSet, wpc, notifyIdx, communicatingFired>>
    /\ UNCHANGED <<handlerVars, connVars, threadVars, envVars, rxVars, activeVars, secsVars, eqVars>>

\* GemHandler.disable: self.communicationState.disable()
CommunicationStateDisable ==
    /\ communicationState # "DISABLED"
    /\ communicationState' = "DISABLED"
    /\ waitCRATimer' = IF communicationState = "WAIT_CRA" THEN Cancel(waitCRATimer)
                                                          ELSE waitCRATimer
    /\ commDelayTimer' = IF communicationState = "WAIT_DELAY" THEN Cancel(commDelayTimer)
                                                              ELSE commDelayTimer
    /\ UNCHANGED <<isHost, craExpired, delayExpired, waitEventList, eventSet, wpc, notifyIdx,
                   communicatingFired>>
    /\ UNCHANGED <<handlerVars, connVars, threadVars, envVars, rxVars, activeVars, secsVars, eqVars>>

\* on_connection_established, called by the thread that connected
GemConnectionEstablished ==
    /\ ~connected
    /\ connected' = TRUE
    /\ is_connected' = TRUE
    /\ UNCHANGED <<systemCounter, systemQueues, is_selected>>
    /\ UNCHANGED <<connVars, threadVars, envVars, rxVars, activeVars, upperVars>>

\* The receiver thread gets Select.req or Select.rsp: is_selected = True,
\* _on_state_select, _on_hsms_select: self.communicationState.select(),
\* forwarded from EQUIPMENT_INITIATED_CONNECT to WAIT_CRA.  In any state
\* but NOT_COMMUNICATING the event raises FysomError.
OnHsmsSelect ==
    /\ connected
    /\ notifyIdx = 0
    /\ is_selected' = TRUE
    /\ IF communicationState = "NOT_COMMUNICATING"
         THEN EnterWaitCra
         ELSE UNCHANGED <<communicationState, waitCRATimer, systemCounter, sentPackets>>
    /\ UNCHANGED <<systemQueues, connected, is_connected>>
    /\ UNCHANGED <<callbackHandler, callbackThreads, handled>>
    /\ UNCHANGED <<isHost, commDelayTimer, craExpired, delayExpired, waitEventList, eventSet,
                   wpc, notifyIdx, communicatingFired>>
    /\ UNCHANGED <<connVars, threadVars, envVars, rxVars, activeVars, eqVars>>

\* GemHandler._on_hsms_packet_received, called by the receiver thread
GemPacketReceived(p) ==
    /\ connected
    /\ notifyIdx = 0
    /\ handled < MaxHandled
    /\ IF communicationState = "WAIT_CRA" /\ p.stream = 1 /\ p.function = 13
         THEN /\ Len(sentPackets) < MaxSent
              /\ sentPackets' = Append(sentPackets, EstablishCommunicationAck(p))
              /\ EnterCommunicating
              /\ handled' = handled + 1
              /\ UNCHANGED callbackThreads
         ELSE IF communicationState = "WAIT_CRA" /\ p.stream = 1 /\ p.function = 14
           THEN /\ EnterCommunicating
                /\ handled' = handled + 1
                /\ UNCHANGED <<sentPackets, callbackThreads>>
           ELSE IF communicationState = "COMMUNICATING"
             THEN /\ StartCallbackThread(p)
                  /\ UNCHANGED <<sentPackets, communicationState, waitCRATimer, notifyIdx,
                                 communicatingFired>>
             ELSE /\ handled' = handled + 1
                  /\ UNCHANGED <<sentPackets, callbackThreads, communicationState, waitCRATimer,
                                 notifyIdx, communicatingFired>>
    /\ UNCHANGED callbackHandler
    /\ UNCHANGED <<isHost, commDelayTimer, craExpired, delayExpired, waitEventList, eventSet,
                   wpc>>
    /\ UNCHANGED <<handlerVars, connVars, threadVars, envVars, rxVars, activeVars, eqVars>>

\* _on_state_communicating: one turn of 'for event in self.waitEventList:
\* event.set()'.  The list iterator keeps an index and stops when the
\* index is past the end of the list as it is then.
NotifyStep ==
    /\ notifyIdx > 0
    /\ IF notifyIdx <= Len(waitEventList)
         THEN /\ eventSet' = eventSet \cup {waitEventList[notifyIdx]}
              /\ notifyIdx' = notifyIdx + 1
         ELSE /\ notifyIdx' = 0
              /\ UNCHANGED eventSet
    /\ UNCHANGED <<communicationState, isHost, waitCRATimer, commDelayTimer, craExpired,
                   delayExpired, waitEventList, wpc, communicatingFired>>
    /\ UNCHANGED <<handlerVars, connVars, threadVars, envVars, rxVars, activeVars, secsVars, eqVars>>

\* a state the closing of the connection leaves as it is
StateKept(state) == state

\* on_connection_closed: if self.communicationState.current ==
\* "COMMUNICATING": self.communicationState.communicationfail()
CommunicationFail(state) == IF state = "COMMUNICATING" THEN "NOT_COMMUNICATING" ELSE state

\* GemHandler.on_connection_closed, called by the receiver thread
GemConnectionClosed ==
    /\ connected
    /\ notifyIdx = 0
    /\ OnConnectionClosed
    /\ communicationState' = CommunicationFail(communicationState)
    /\ UNCHANGED <<isHost, waitCRATimer, commDelayTimer, craExpired, delayExpired,
                   waitEventList, eventSet, wpc, notifyIdx, communicatingFired>>
    /\ UNCHANGED <<connVars, threadVars, envVars, rxVars, activeVars, secsVars, eqVars>>

\* T3 passes: the thread of the WAIT_CRA timer finds the timer not
\* cancelled and goes on to call _on_wait_cra_timeout
WaitCraExpire ==
    /\ waitCRATimer = "armed"
    /\ ~craExpired
    /\ waitCRATimer' = "stopped"
    /\ craExpired' = TRUE
    /\ UNCHANGED <<communicationState, isHost, commDelayTimer, delayExpired, waitEventList,
                   eventSet, wpc, notifyIdx, communicatingFired>>
    /\ UNCHANGED <<handlerVars, connVars, threadVars, envVars, rxVars, activeVars, secsVars, eqVars>>

\* _on_wait_cra_timeout: self.communicationState.communicationreqfail(),
\* with _on_state_leave_wait_cra and _on_state_wait_delay; FysomError in
\* any state but WAIT_CRA
OnWaitCraTimeout ==
    /\ craExpired
    /\ craExpired' = FALSE
    /\ IF communicationState = "WAIT_CRA"
         THEN /\ waitCRATimer' = Cancel(waitCRATimer)
              /\ communicationState' = "WAIT_DELAY"
              /\ commDelayTimer' = "armed"
         ELSE UNCHANGED <<waitCRATimer, communicationState, commDelayTimer>>
    /\ UNCHANGED <<isHost, delayExpired, waitEventList, eventSet, wpc, notifyIdx,
                   communicatingFired>>
    /\ UNCHANGED <<handlerVars, connVars, threadVars, envVars, rxVars, activeVars, secsVars, eqVars>>

\* establishCommunicationTimeout passes: the thread of the delay timer
\* finds the timer not cancelled and goes on to call
\* _on_wait_comm_delay_timeout
CommDelayExpire ==
    /\ commDelayTimer = "armed"
    /\ ~delayExpired
    /\ commDelayTimer' = "stopped"
    /\ delayExpired' = TRUE
    /\ UNCHANGED <<communicationState, isHost, waitCRATimer, craExpired, waitEventList,
                   eventSet, wpc, notifyIdx, communicatingFired>>
    /\ UNCHANGED <<handlerVars, connVars, threadVars, envVars, rxVars, activeVars, secsVars, eqVars>>

\* _on_wait_comm_delay_timeout: self.communicationState.delayexpired(),
\* with _on_state_leave_wait_delay and _on_state_wait_cra; FysomError in
\* any state but WAIT_DELAY
OnWaitCommDelayTimeout ==
    /\ delayExpired
    /\ delayExpired' = FALSE
    /\ IF communicationState = "WAIT_DELAY"
         THEN /\ commDelayTimer' = Cancel(commDelayTimer)
              /\ EnterWaitCra
         ELSE UNCHANGED <<commDelayTimer, communicationState, waitCRATimer, systemCounter,
                          sentPackets>>
    /\ UNCHANGED <<systemQueues, connected, is_connected, is_selected>>
    /\ UNCHANGED <<callbackHandler, callbackThreads, handled>>
    /\ UNCHANGED <<isHost, craExpired, waitEventList, eventSet, wpc, notifyIdx,
                   communicatingFired>>
    /\ UNCHANGED <<connVars, threadVars, envVars, rxVars, activeVars, eqVars>>

\* self.waitEventList.remove(event)
Remove(list, w) == SelectSeq(list, LAMBDA x : x # w)

\* waitfor_communicating: event = threading.Event();
\* self.waitEventList.append(event)
WaitforAppend(w) ==
    /\ wpc[w] = "idle"
    /\ waitEventList' = Append(waitEventList, w)
    /\ eventSet' = eventSet \ {w}
    /\ wpc' = [wpc EXCEPT ![w] = "check"]
    /\ UNCHANGED <<communicationState, isHost, waitCRATimer, commDelayTimer, craExpired,
                   delayExpired, notifyIdx, communicatingFired>>
    /\ UNCHANGED <<handlerVars, connVars, threadVars, envVars, rxVars, activeVars, secsVars, eqVars>>

\* waitfor_communicating: if the state is COMMUNICATING remove the event
\* and return True, else wait for the event
WaitforCheck(w) ==
    /\ wpc[w] = "check"
    /\ IF communicationState = "COMMUNICATING"
         THEN /\ waitEventList' = Remove(waitEventList, w)
              /\ wpc' = [wpc EXCEPT ![w] = "idle"]
         ELSE /\ wpc' = [wpc EXCEPT ![w] = "wait"]
              /\ UNCHANGED waitEventList
    /\ UNCHANGED <<communicationState, isHost, waitCRATimer, commDelayTimer, craExpired,
                   delayExpired, eventSet, notifyIdx, communicatingFired>>
    /\ UNCHANGED <<handlerVars, connVars, threadVars, envVars, rxVars, activeVars, secsVars, eqVars>>

\* waitfor_communicating: event.wait(timeout) returns, because the event
\* is set or, if timedOut, because the timeout has passed; the event is
\* removed from the list
WaitforReturn(w, timedOut) ==
    /\ wpc[w] = "wait"
    /\ timedOut \/ w \in eventSet
    /\ waitEventList' = Remove(waitEventList, w)
    /\ wpc' = [wpc EXCEPT ![w] = "idle"]
    /\ UNCHANGED <<communicationState, isHost, waitCRATimer, commDelayTimer, craExpired,
                   delayExpired, eventSet, notifyIdx, communicatingFired>>
    /\ UNCHANGED <<handlerVars, connVars, threadVars, envVars, rxVars, activeVars, secsVars, eqVars>>

(* ---------------------------- specifications -------------------------- *)

\* steps of the application threads inside the send methods
SenderStep ==
    \/ \E t \in Senders : GnscStep(t)
    \/ \E t \in Senders : Register(t)
    \/ \E t \in Senders, ok \in BOOLEAN : SendBlock(t, ok)
    \/ \E t \in Senders : WaitGet(t)
    \/ \E t \in Senders : WaitTimeout(t)
    \/ \E t \in Senders : RemoveQueue(t)

\* The session: one application thread sends requests of one block, one
\* after the other, over a connection that is established and stays up, and
\* the receiver handles what the peer sends.
Next ==
    \/ \E k \in SendKinds : MayCall("s1") /\ Call("s1", k, 1)
    \/ SenderStep
    \/ Connect
    \/ OnConnectionEstablished
    \/ \E p \in PeerPackets, ok \in BOOLEAN : RcvPacket(p, ok)
    \/ RcvPut

Spec == Init /\ [][Next]_vars

\* Correlation of data messages: one application thread sends data requests
\* and the peer sends data messages and Select.rsp.
NextReceive ==
    \/ MayCall("s1") /\ Call("s1", "data", 1)
    \/ SenderStep
    \/ Connect
    \/ OnConnectionEstablished
    \/ \E p \in {q \in PeerPackets : q.sType \in {0, 2}}, ok \in BOOLEAN : RcvPacket(p, ok)
    \/ RcvPut

SpecReceive == Init /\ [][NextReceive]_vars

\* Concurrent requests: two application threads send data requests and the
\* peer sends replies.
NextConcurrent ==
    \/ \E t \in Senders : MayCall(t) /\ Call(t, "data", 1)
    \/ SenderStep
    \/ Connect
    \/ OnConnectionEstablished
    \/ \E p \in {q \in PeerPackets : q.sType = 0 /\ q.function = 2}, ok \in BOOLEAN :
          RcvPacket(p, ok)
    \/ RcvPut

SpecConcurrent == Init /\ [][NextConcurrent]_vars

\* The connection's life cycle: connections are established and closed, by
\* the peer or by disconnect(), while the peer sends packets.
NextLifeCycle ==
    \/ Connect
    \/ OnConnectionEstablished
    \/ PeerClose
    \/ Disconnect
    \/ DisconnectReturn
    \/ RcvExit
    \/ GnscStep(Rcv)
    \/ \E ok \in BOOLEAN : RcvSendSeparate(ok)
    \/ RcvClose
    \/ RcvReset
    \/ \E p \in PeerPackets, ok \in BOOLEAN : RcvPacket(p, ok)

SpecLifeCycle == Init /\ [][NextLifeCycle]_vars

\* send_packet: application threads send frames of up to MaxBlocks blocks
\* over an established connection.
NextSend ==
    \/ \E t \in Senders, n \in 1..MaxBlocks : MayCall(t) /\ Call(t, "sf", n)
    \/ \E t \in Senders : GnscStep(t)
    \/ \E t \in Senders, ok \in BOOLEAN : SendBlock(t, ok)
    \/ Connect
    \/ OnConnectionEstablished

SpecSend == Init /\ [][NextSend]_vars

\* 2^31 - 2: the counter after 2^31 - 2 messages
CounterNearMax == <<1, PyLongBase - 2>>

\* Sequential calls of get_next_system_counter: one application thread
\* calls the send methods one after the other, on a handler just
\* constructed or one whose counter is about to wrap.
InitSeq == \E c \in {PyInt(0), CounterNearMax} : InitWith(c)

NextSeq ==
    \/ \E k \in SendKinds : MayCall("s1") /\ Call("s1", k, 1)
    \/ GnscStep("s1")
    \/ Register("s1")
    \/ \E ok \in BOOLEAN : SendBlock("s1", ok)

SpecSeq == InitSeq /\ [][NextSeq]_vars

\* steps of the receiver thread from the end of its loop to its end
RcvShutdown ==
    \/ RcvExit
    \/ GnscStep(Rcv)
    \/ \E ok \in BOOLEAN : RcvSendSeparate(ok)
    \/ RcvClose
    \/ RcvReset

\* Framing: a conforming peer sends frames, recv returns them in chunks of
\* any size, and the connection is closed and established again.
NextFraming ==
    \/ Connect
    \/ OnConnectionEstablished
    \/ \E f \in WellFormedFrames : PeerSend(f)
    \/ \E k \in 1..Len(socketBytes) : RcvRecv(k)
    \/ ProcessReceiveBuffer
    \/ PeerClose
    \/ RcvShutdown

SpecFraming == Init /\ [][NextFraming]_vars

\* Framing with a peer that also sends frames shorter than a header.
NextMalformed ==
    \/ Connect
    \/ OnConnectionEstablished
    \/ \E f \in WellFormedFrames \cup ShortFrames : PeerSend(f)
    \/ \E k \in 1..Len(socketBytes) : RcvRecv(k)
    \/ ProcessReceiveBuffer
    \/ GnscStep(Rcv)
    \/ \E ok \in BOOLEAN : RcvSendSeparate(ok)
    \/ RcvClose
    \/ RcvReset

SpecMalformed == Init /\ [][NextMalformed]_vars

\* An active connection that the application enables and disables, with
\* its connect threads and the receiver thread of each connection made.
NextActive ==
    \/ Enable
    \/ DisableBegin
    \/ DisableStopThread
    \/ DisableWait
    \/ DisableDisconnect
    \/ DisableJoin
    \/ \E c \in ConnThreads : CheckFirst(c) \/ Idle(c) \/ ClearFirst(c)
    \/ \E c \in ConnThreads, ok \in BOOLEAN : ConnectAttempt(c, ok)
    \/ OnConnectionEstablished
    \/ PeerClose
    \/ RcvShutdown
    \/ OnHsmsConnectionClose

SpecActive == Init /\ [][NextActive]_vars

\* The SECS handler: callbacks are registered, data packets arrive and
\* each is handled by a callback thread of its own.
NextDispatch ==
    \/ \E n \in CallbackNames, b \in CallbackBehaviours \cup {"unset"} :
          RegisterStreamFunction(n, b)
    \/ \E p \in DataPackets : SecsPacketReceived(p)
    \/ \E p \in DataPackets : HandleStreamFunction(p)

SpecDispatch == Init /\ [][NextDispatch]_vars

\* the handler of a host (GemHandler, GemHostHandler) or of an equipment
\* (GemEquipmentHandler)
InitGem == \E host \in BOOLEAN : InitFor(PyInt(0), host)

\* The GEM handler over a connection that is established, selected and
\* closed by the HSMS layer below it, with its two timers.
NextGem ==
    \/ CommunicationStateEnable
    \/ CommunicationStateDisable
    \/ GemConnectionEstablished
    \/ OnHsmsSelect
    \/ \E p \in GemPackets : GemPacketReceived(p)
    \/ NotifyStep
    \/ GemConnectionClosed
    \/ WaitCraExpire
    \/ OnWaitCraTimeout
    \/ CommDelayExpire
    \/ OnWaitCommDelayTimeout

SpecGem == InitGem /\ [][NextGem]_vars

\* The GEM handler while it stays enabled: connections come and go.
NextSession ==
    \/ CommunicationStateEnable
    \/ GemConnectionEstablished
    \/ OnHsmsSelect
    \/ \E p \in GemPackets : GemPacketReceived(p)
    \/ NotifyStep
    \/ GemConnectionClosed
    \/ WaitCraExpire
    \/ OnWaitCraTimeout
    \/ CommDelayExpire
    \/ OnWaitCommDelayTimeout

SpecSession == InitGem /\ [][NextSession]_vars

\* The same with the threads that call waitfor_communicating; they do not
\* time out.
NextWaiters ==
    \/ NextGem
    \/ \E w \in Waiters : WaitforAppend(w) \/ WaitforCheck(w) \/ WaitforReturn(w, FALSE)

SpecWaiters == Init /\ [][NextWaiters]_vars

(* ================================ claims ============================== *)

\* positions of a send method once get_next_system_counter has returned
HasSystemId == {"register", "send", "wait", "remove"}

\* thread t returns from _remove_queue in this step
Removes(t) == pc[t] = "remove" /\ pc'[t] = "idle"

\* the receiver hands a packet to a queue in this step
Puts == pc[Rcv] = "put" /\ pc'[Rcv] = "loop"

\* the threads whose request is pending under system id y
Pending(y) == {t \in Senders : pc[t] \in {"send", "wait"} /\ system_id[t] = y}

\* C1: a reply that arrives while a request is pending under its system id
\* wakes exactly one waiter, the one that registered that id: no two
\* requests are pending under the id, the packet goes into the queue of the
\* thread whose request is, and when a woken waiter returns the table
\* loses exactly the entry of its system id.
C1_WakesOneWaiter ==
    [][ /\ Puts =>
             /\ Cardinality(Pending(rcvPacket[1].system)) <= 1
             /\ \A t \in Pending(rcvPacket[1].system) :
                    queue'[t] = Append(queue[t], rcvPacket[1])
        /\ \A t \in Senders :
             (Removes(t) /\ response[t] # <<>>) =>
                 /\ response[t][1].system = system_id[t]
                 /\ system_id[t] \in DOMAIN systemQueues
                 /\ DOMAIN systemQueues' = DOMAIN systemQueues \ {system_id[t]}
      ]_vars

\* C8: two sends that run at the same time never hold the same system id.
C8_DistinctSystemIds ==
    \A t1, t2 \in Senders :
        (t1 # t2 /\ pc[t1] \in HasSystemId /\ pc[t2] \in HasSystemId)
            => system_id[t1] # system_id[t2]

\* thread t has returned from a send method that waits for a reply
Returned(t) == pc[t] = "idle" /\ calls[t] > 0 /\ kind[t] \in WaitKinds

\* C2: every call of send_and_waitfor_response, send_select_req,
\* send_deselect_req and send_linktest_req returns the reply packet or
\* null, and once it has returned the table holds no entry for its system
\* id.
C2_EntryGoneOnReturn ==
    \A t \in Senders :
        Returned(t) =>
            /\ outcome[t] \in {"response", "null"}
            /\ system_id[t] \notin DOMAIN systemQueues

\* the SType of the response to each control request
RspSType(k) == CASE k = "select" -> 2 [] k = "deselect" -> 4 [] k = "linktest" -> 6

\* C4: a control request (Select.req, Deselect.req, Linktest.req) returns a
\* packet only if that packet is the corresponding response (SType 2, 4, 6)
\* with the system id of the request; anything else gives null.
C4_OnlyMatchingRsp ==
    \A t \in Senders :
        (Returned(t) /\ kind[t] \in {"select", "deselect", "linktest"}
            /\ outcome[t] = "response") =>
                /\ response[t][1].sType = RspSType(kind[t])
                /\ response[t][1].system = system_id[t]

\* the receiver thread handles packet p of the peer in this step
Receives(p) == \E ok \in BOOLEAN : RcvPacket(p, ok)

\* the receiver thread handles a packet in this step
Receiving == inbound' = inbound + 1

\* the Reject.req that answers data packet p of a session that is not
\* selected: session 0xFFFF, stream 0, function 4, SType 7, the system id
\* of p
NotSelectedReject(p) == Header(ControlSessionId, FALSE, 0, 4, 7, p.system)

\* C5: a data message received while the session is not selected is
\* answered with a Reject.req (session 0xFFFF, stream 0, function 4, SType
\* 7, the system id of the message) and discarded: it reaches neither the
\* stream/function dispatch nor a response queue.
C5_RejectsWhenNotSelected ==
    [][ Receiving => \A p \in PeerPackets :
          (p.sType = 0 /\ ~is_selected /\ Receives(p)) =>
              /\ dispatched' = dispatched
              /\ pc'[Rcv] # "put"
              /\ wire' # wire => wire'[Len(wire')].hdr = NotSelectedReject(p)
              /\ RcvPacket(p, TRUE) => wire' # wire
      ]_vars

\* the receiver thread runs on_connection_closed in this step
Closes == pc[Rcv] = "close" /\ pc'[Rcv] = "reset"

\* C6: the close of the TCP connection clears is_selected, the session is
\* never selected without being connected, and a connection that has just
\* been established is not selected.
C6_SelectedOnlyWhileConnected ==
    [][ /\ Closes => ~is_selected'
        /\ is_selected' => is_connected'
        /\ Connect => ~is_selected'
      ]_vars

\* C7: the receipt of a Separate.req (SType 9) closes the connection: its
\* handling tells the receiver thread to leave its loop.
C7_SeparateCloses ==
    [][ Receiving => \A p \in PeerPackets :
          (p.sType = 9 /\ Receives(p)) => (stopThread' \/ ~connConnected')
      ]_vars

\* blocks i and j of the wire belong to the same frame
SameFrame(i, j) == wire[i].from = wire[j].from /\ wire[i].call = wire[j].call

\* C10: the blocks of one frame reach the socket without a block of another
\* frame between them.
C10_FramesContiguous ==
    \A i \in 1..Len(wire) : \A k \in i..Len(wire) : \A j \in i..k :
        SameFrame(i, k) => SameFrame(i, j)

NextSystemId(c) == IF c = SystemCounterMax THEN PyInt(0) ELSE PyAdd1(c)

\* thread t returns from get_next_system_counter in this step
GnscReturns(t) == pc[t] = "gnsc_ret" /\ pc'[t] # "gnsc_ret"

\* C9: calls one after the other return the counter's successor: 1, 2, 3,
\* ... from the initial 0, every value is in 0 .. 2^31 - 1, and the value
\* after 2^31 - 1 is 0.
C9_CounterSequence ==
    [][ \A t \in Senders :
          GnscReturns(t) =>
              /\ system_id'[t] = NextSystemId(tmp[t])
              /\ system_id'[t] = systemCounter'
              /\ ~PyGT(system_id'[t], SystemCounterMax)
              /\ tmp[t] = PyInt(0) => system_id'[t] = PyInt(1)
      ]_vars

\* a call returned 2^31 - 1 and the next call has returned 0
C9_Wrapped ==
    /\ calls["s1"] = 2
    /\ pc["s1"] \in HasSystemId
    /\ system_id["s1"] = PyInt(0)
    /\ systemCounter = PyInt(0)

RECURSIVE Concat(_)
\* the bytes of a sequence of frames
Concat(frames) == IF frames = <<>> THEN <<>> ELSE Head(frames) \o Concat(Tail(frames))

\* C11: whatever frames the peer sends and however recv splits their bytes,
\* the packets handed to on_connection_packet_received are the decoded
\* frames, one per frame and in wire order; a frame is handed over only
\* when all its bytes have been received; the bytes not yet handed over
\* stay in the buffer; when the receiver goes back to wait for data the
\* buffer holds no whole frame; and the receiver leaves its loop only when
\* it was told to stop.
C11_OnePacketPerFrame ==
    /\ Len(delivered) <= Len(peerFrames)
    /\ \A i \in 1..Len(delivered) :
          /\ delivered[i] = PacketDecode(peerFrames[i])
          /\ PacketEncode(delivered[i].header, delivered[i].data) = peerFrames[i]
    /\ pc[Rcv] \in {"loop", "process"} =>
          Concat(SubSeq(peerFrames, 1, Len(delivered))) \o receiveBuffer \o socketBytes
              = Concat(peerFrames)
    /\ pc[Rcv] = "loop" => ~HasFrame(receiveBuffer)
    /\ pc[Rcv] \notin {"off", "loop", "process"} => stopThread

\* a frame was handed over and the first bytes of the next one wait in the
\* buffer for the rest
C11_PartialFrameKept ==
    /\ pc[Rcv] = "loop"
    /\ Len(peerFrames) = 2
    /\ Len(delivered) = 1
    /\ receiveBuffer # <<>>
    /\ socketBytes # <<>>

\* _process_receive_buffer takes a frame from the buffer in this step
TakesFrame == pc[Rcv] = "process" /\ HasFrame(receiveBuffer) /\ receiveBuffer' # receiveBuffer

\* the frame at the head of the buffer
HeadFrame == SubSeq(receiveBuffer, 1, FrameLength(receiveBuffer))

\* C12: a frame whose decoding raises an exception (its length prefix is
\* smaller than the 10-byte header) is discarded and nothing else: the
\* receiver stays in its loop, with the rest of the buffer, to deliver the
\* frames that follow.
C12_BadFrameOnlyDiscarded ==
    [][ (TakesFrame /\ DecodeRaises(HeadFrame)) =>
            /\ pc'[Rcv] \in {"loop", "process"}
            /\ delivered' = delivered
            /\ receiveBuffer' = SubSeq(receiveBuffer, Len(HeadFrame) + 1, Len(receiveBuffer))
      ]_vars

\* connect thread c makes a connect attempt in this step
Attempts(c) == cpc[c] = "connect" /\ cpc'[c] # "connect" /\ attempts' = attempts + 1

\* C13: the first connect attempt after enable() is made without a T5
\* wait, also after disable() and enable(); every later attempt is made
\* after a T5 wait of the thread that makes it.
C13_T5BeforeLaterAttempts ==
    [][ \A c \in ConnThreads : Attempts(c) => (waited[c] <=> attempted) ]_vars

\* C14: from the return of disable() until the next enable(), no connect
\* attempt is made and no connection is established.
C14_NoAttemptWhileDisabled ==
    [][ (apc = "idle" /\ ~enabled) => (attempts' = attempts /\ connects' = connects) ]_vars

\* some thread is alive that will clear stopConnectionThread
ConnectThreadPending == (\E c \in ConnThreads : cpc[c] # "off") \/ pc[Rcv] = "notify"

\* C15: disable() terminates: while it waits for stopConnectionThread to
\* be cleared, a connect thread that will clear it is alive; and when it
\* has returned the receiver is stopped and the socket is not open.
C15_DisableTerminates ==
    /\ (apc = "dis_wait" /\ stopConnectionThread) => ConnectThreadPending
    /\ (apc = "idle" /\ ~enabled) => (~threadRunning /\ sock # "open")

\* the callback thread of packet p runs _handle_stream_function in this step
Handles(p) == p \in callbackThreads /\ p \notin callbackThreads'

\* C16: when the callback of a data message raises, SxF0 of the inbound
\* stream is sent with the inbound system id if the message required a
\* reply, and nothing is sent if it did not.
C16_AbortOnlyIfReplyRequired ==
    [][ \A p \in DataPackets :
          (Handles(p) /\ callbackHandler[CallbackName(p)] = "raises")
            => sentPackets' = IF p.requireResponse
                                THEN Append(sentPackets, Response(p.stream, 0, p.system, NoItems))
                                ELSE sentPackets ]_vars

\* the receiver thread passes a data packet to the GEM handler in this step
GemReceiving == handled' = handled + 1

\* the GEM handler receives stream 1, function f in this step
GemReceives(f) == \E p \in GemPackets : p.stream = 1 /\ p.function = f /\ GemPacketReceived(p)

\* the loop over waitEventList of _on_state_communicating ends in this step
NotifyEnds == notifyIdx > 0 /\ notifyIdx' = 0

\* C17: S1F14 received in WAIT_CRA moves the state to COMMUNICATING, stops
\* the WAIT_CRA timer and fires handler_communicating once; when
\* _on_state_communicating is through, the event of every caller waiting in
\* waitfor_communicating is set.
C17_S1F14Communicating ==
    [][ /\ (communicationState = "WAIT_CRA" /\ GemReceiving /\ GemReceives(14))
            => /\ communicationState' = "COMMUNICATING"
               /\ waitCRATimer' # "armed"
               /\ communicatingFired' = communicatingFired + 1
        /\ NotifyEnds => \A w \in Waiters : wpc[w] = "wait" => w \in eventSet' ]_vars

\* the states of the establish-communication cycle
InCycle(state) == state \in {"WAIT_CRA", "WAIT_DELAY"}

\* _on_wait_cra_timeout, _on_wait_comm_delay_timeout run in this step
CraTimeoutRuns == craExpired /\ ~craExpired'
DelayTimeoutRuns == delayExpired /\ ~delayExpired'

C19_S1F13Answered ==
    [][ GemReceiving =>
          \A p \in GemPackets :
            ( /\ communicationState \in {"NOT_COMMUNICATING", "WAIT_CRA", "WAIT_DELAY"}
              /\ p.stream = 1 /\ p.function = 13
              /\ GemPacketReceived(p) )
            => /\ communicationState' = "COMMUNICATING"
               /\ sentPackets' = Append(sentPackets, EstablishCommunicationAck(p)) ]_vars

\* the connection is closed in this step
GemCloses == connected /\ ~connected'

\* C20: when the connection is closed in COMMUNICATING the state becomes
\* NOT_COMMUNICATING, and the HSMS select that follows moves it to WAIT_CRA,
\* starts the WAIT_CRA timer and sends S1F13.
C20_HandshakeAfterClose ==
    [][ /\ (GemCloses /\ communicationState = "COMMUNICATING")
            => communicationState' = "NOT_COMMUNICATING"
        /\ (communicationState = "NOT_COMMUNICATING" /\ OnHsmsSelect)
            => /\ communicationState' = "WAIT_CRA"
               /\ waitCRATimer' = "armed"
               /\ sentPackets' = Append(sentPackets, EstablishCommunicationRequest) ]_vars

\* the handler was COMMUNICATING, the connection was closed and
\* established again, and the select has sent S1F13 again
C20_SecondHandshake ==
    /\ communicationState = "WAIT_CRA"
    /\ communicatingFired = 1
    /\ connected
    /\ Len(sentPackets) >= 2
    /\ sentPackets[Len(sentPackets)].header.function = 13
    /\ waitCRATimer = "armed"
    /\ commDelayTimer = "none"


(***************************************************************************)
(* Fysom, the state machine engine.  A machine m is a record: m.map is the *)
(* table _map as a function on the pairs <<event, source>>, m.autoforward  *)
(* the table _autoforward as a function on states, m.callbacks the set of  *)
(* callbacks that are attributes of the machine, each a pair               *)
(* <<prefix, name>> for the attribute prefix + name.  An event function in *)
(* execution is a record of the stack: its event, src and dst, the         *)
(* position it has reached and whether it is inside a callback.            *)
(***************************************************************************)
NoTransition == [event |-> "", src |-> "", dst |-> ""]

\* a machine that never keeps a pending transition
NothingPending == FALSE

HasTransition == transition # NoTransition

Top == stack[Len(stack)]

InCallback == stack # <<>> /\ Top.incb

\* an event function is called by the application or from inside a callback
Callable == stack = <<>> \/ InCallback

\* a table with an entry for every event in every state
AnyEvent(m, evt) == TRUE

Mapped(m, evt) == <<evt, current>> \in DOMAIN m.map

Can(m, evt) == Mapped(m, evt) /\ ~HasTransition

Dst(m, evt) == IF <<evt, current>> \in DOMAIN m.map THEN m.map[<<evt, current>>] ELSE current

FirstOf(m, names) ==
    LET present == {i \in 1..Len(names) : names[i] \in m.callbacks}
    IN  IF present = {} THEN <<>>
        ELSE names[CHOOSE i \in present : \A j \in present : i <= j]

\* the callback the event function looks up at its position
CallbackOf(m, f) ==
    CASE f.phase = "before" -> FirstOf(m, << <<"onbefore", f.event>> >>)
      [] f.phase = "leave"  -> FirstOf(m, << <<"onleave", f.src>> >>)
      [] f.phase = "enter"  -> FirstOf(m, << <<"onenter", f.dst>>, <<"on", f.dst>> >>)
      [] f.phase = "change" -> FirstOf(m, << <<"onchangestate", "">> >>)
      [] f.phase = "after"  -> FirstOf(m, << <<"onafter", f.event>>, <<"on", f.event>> >>)
      [] OTHER -> <<>>

Frame(evt, src, dst, phase, run) ==
    [event |-> evt, src |-> src, dst |-> dst, phase |-> phase, incb |-> FALSE, run |-> run]

Pop == SubSeq(stack, 1, Len(stack) - 1)

SetTop(f) == [stack EXCEPT ![Len(stack)] = f]

\* one pass of the loop of the event function starts
Iteration(evt, src, dst) == Frame(evt, src, dst, IF current # dst THEN "before" ELSE "leave", "event")

\* an exception leaves every event function in execution
Raise(error) ==
    /\ fsmError' = error
    /\ stack' = <<>>
    /\ UNCHANGED <<current, transition>>

\* a FysomError reaches the caller of the event function: a callback that
\* catches it goes on, otherwise it leaves every event function
Fail(error, caught) ==
    /\ fsmError' = error
    /\ stack' = IF caught THEN stack ELSE <<>>
    /\ UNCHANGED <<current, transition>>

FsmFire(m, evt, caught) ==
    /\ Callable
    /\ IF HasTransition THEN Fail("in_progress", caught)
       ELSE IF ~Can(m, evt) THEN Fail("inappropriate", caught)
       ELSE /\ stack' = Append(stack, Iteration(evt, current, Dst(m, evt)))
            /\ fsmError' = "none"
            /\ UNCHANGED <<current, transition>>

\* the position after the callback of the position f.phase returned ret
Advance(f, ret) ==
    CASE f.phase = "before" ->
            IF ret = "False"
            THEN /\ stack' = Pop
                 /\ UNCHANGED <<current, transition>>
            ELSE /\ transition' = [event |-> f.event, src |-> f.src, dst |-> f.dst]
                 /\ stack' = SetTop([f EXCEPT !.phase = "leave", !.incb = FALSE])
                 /\ UNCHANGED current
      [] f.phase = "leave" ->
            IF ret # "False" /\ HasTransition
            THEN /\ transition' = NoTransition
                 /\ current' = transition.dst
                 /\ stack' = SetTop([f EXCEPT !.phase = "enter", !.incb = FALSE])
            ELSE /\ stack' = SetTop([f EXCEPT !.phase = "forward", !.incb = FALSE])
                 /\ UNCHANGED <<current, transition>>
      [] f.phase = "enter" ->
            /\ stack' = SetTop([f EXCEPT !.phase = "change", !.incb = FALSE])
            /\ UNCHANGED <<current, transition>>
      [] f.phase = "change" ->
            /\ stack' = SetTop([f EXCEPT !.phase = "after", !.incb = FALSE])
            /\ UNCHANGED <<current, transition>>
      [] f.phase = "after" ->
            /\ stack' = IF f.run = "event"
                        THEN SetTop([f EXCEPT !.phase = "forward", !.incb = FALSE])
                        ELSE Pop
            /\ UNCHANGED <<current, transition>>

CallbackPhases == {"before", "leave", "enter", "change", "after"}

FsmCall(m) ==
    /\ stack # <<>>
    /\ ~Top.incb
    /\ Top.phase \in CallbackPhases
    /\ CallbackOf(m, Top) # <<>>
    /\ stack' = SetTop([Top EXCEPT !.incb = TRUE])
    /\ UNCHANGED <<current, transition, fsmError>>

FsmSkip(m) ==
    /\ stack # <<>>
    /\ ~Top.incb
    /\ Top.phase \in CallbackPhases
    /\ CallbackOf(m, Top) = <<>>
    /\ Advance(Top, "None")
    /\ UNCHANGED fsmError

FsmReturn(m, ret) ==
    /\ InCallback
    /\ Advance(Top, ret)
    /\ UNCHANGED fsmError

\* an engine that leaves the loop after the first pass
NoForward(m) ==
    /\ stack # <<>>
    /\ Top.phase = "forward"
    /\ stack' = Pop
    /\ UNCHANGED <<current, transition, fsmError>>

FsmForward(m) ==
    /\ stack # <<>>
    /\ Top.phase = "forward"
    /\ IF current \in DOMAIN m.autoforward
       THEN IF Top.dst \in DOMAIN m.autoforward
            THEN /\ stack' = SetTop(Iteration("autoforward", Top.dst, m.autoforward[Top.dst]))
                 /\ UNCHANGED <<current, transition, fsmError>>
            ELSE Raise("KeyError")
       ELSE /\ stack' = Pop
            /\ UNCHANGED <<current, transition, fsmError>>

\* the pending transition of a deferred event is called
FsmTransition(m) ==
    /\ Callable
    /\ HasTransition
    /\ current' = transition.dst
    /\ transition' = NoTransition
    /\ stack' = Append(stack, Frame(transition.event, transition.src, transition.dst,
                                    "enter", "deferred"))
    /\ UNCHANGED fsmError

(***************************************************************************)
(* A machine with three states, an event that keeps the state, an event    *)
(* from two states and an automatic edge; some of its callbacks exist.     *)
(***************************************************************************)
TestMap ==
    (<<"startup", "none">> :> "A") @@ (<<"go", "A">> :> "B") @@ (<<"stay", "A">> :> "A")
    @@ (<<"jump", "A">> :> "C") @@ (<<"jump", "B">> :> "C") @@ (<<"back", "B">> :> "A")

TestMachine ==
    [map |-> TestMap,
     autoforward |-> ("C" :> "A"),
     callbacks |-> {<<"onbefore", "go">>, <<"onleave", "A">>, <<"on", "B">>,
                    <<"onchangestate", "">>, <<"onafter", "go">>, <<"on", "go">>,
                    <<"on", "back">>}]

TestEvents == {"startup", "go", "stay", "jump", "back"}

Returns == {"None", "False"}

lowerVars == <<baseVars, secsVars, gemVars, codecVars, linktestVars>>
otherVars == <<lowerVars, programVars>>

\* one more event function may be called
MayFire == fired < MaxFired /\ Len(stack) < MaxDepth

TestFire(evt, caught) ==
    /\ MayFire
    /\ fired' = fired + 1
    /\ FsmFire(TestMachine, evt, caught)
    /\ UNCHANGED <<callbackCalls, otherVars>>

TestCall ==
    /\ FsmCall(TestMachine)
    /\ callbackCalls' = callbackCalls + 1
    /\ UNCHANGED <<fired, otherVars>>

TestSkip == FsmSkip(TestMachine) /\ UNCHANGED <<fired, callbackCalls, otherVars>>

TestReturn(ret) == FsmReturn(TestMachine, ret) /\ UNCHANGED <<fired, callbackCalls, otherVars>>

TestForward == FsmForward(TestMachine) /\ UNCHANGED <<fired, callbackCalls, otherVars>>

TestTransition ==
    /\ MayFire
    /\ fired' = fired + 1
    /\ FsmTransition(TestMachine)
    /\ UNCHANGED <<callbackCalls, otherVars>>

NextFysom ==
    \/ \E evt \in TestEvents, caught \in BOOLEAN : TestFire(evt, caught)
    \/ TestCall
    \/ TestSkip
    \/ \E ret \in Returns : TestReturn(ret)
    \/ TestForward
    \/ TestTransition

SpecFysom == Init /\ [][NextFysom]_vars

(***************************************************************************)
(* GemEquipmentHandler: the control state machine, a Fysom machine, and    *)
(* the operations that fire its events.  The thread that runs an operation *)
(* keeps in todo what it has still to do, innermost callback first: an     *)
(* event to fire, a message to send, a reply to wait for, a list of        *)
(* collection events to trigger, the return from a callback.  Operations   *)
(* of the equipment handler are taken one after the other.                 *)
(***************************************************************************)
CEID_EQUIPMENT_OFFLINE == 1
CEID_CONTROL_STATE_LOCAL == 2
CEID_CONTROL_STATE_REMOTE == 3

ControlMap ==
    (<<"startup", "none">> :> "INIT")
    @@ (<<"start", "INIT">> :> "CONTROL")
    @@ (<<"initial_offline", "CONTROL">> :> "OFFLINE")
    @@ (<<"initial_equipment_offline", "OFFLINE">> :> "EQUIPMENT_OFFLINE")
    @@ (<<"initial_attempt_online", "OFFLINE">> :> "ATTEMPT_ONLINE")
    @@ (<<"initial_host_offline", "OFFLINE">> :> "HOST_OFFLINE")
    @@ (<<"switch_online", "EQUIPMENT_OFFLINE">> :> "ATTEMPT_ONLINE")
    @@ (<<"attempt_online_fail_equipment_offline", "ATTEMPT_ONLINE">> :> "EQUIPMENT_OFFLINE")
    @@ (<<"attempt_online_fail_host_offline", "ATTEMPT_ONLINE">> :> "HOST_OFFLINE")
    @@ (<<"attempt_online_success", "ATTEMPT_ONLINE">> :> "ONLINE")
    @@ (<<"switch_offline", "ONLINE">> :> "EQUIPMENT_OFFLINE")
    @@ (<<"switch_offline", "ONLINE_LOCAL">> :> "EQUIPMENT_OFFLINE")
    @@ (<<"switch_offline", "ONLINE_REMOTE">> :> "EQUIPMENT_OFFLINE")
    @@ (<<"initial_online", "CONTROL">> :> "ONLINE")
    @@ (<<"initial_online_local", "ONLINE">> :> "ONLINE_LOCAL")
    @@ (<<"initial_online_remote", "ONLINE">> :> "ONLINE_REMOTE")
    @@ (<<"switch_online_local", "ONLINE_REMOTE">> :> "ONLINE_LOCAL")
    @@ (<<"switch_online_remote", "ONLINE_LOCAL">> :> "ONLINE_REMOTE")
    @@ (<<"remote_offline", "ONLINE">> :> "HOST_OFFLINE")
    @@ (<<"remote_offline", "ONLINE_LOCAL">> :> "HOST_OFFLINE")
    @@ (<<"remote_offline", "ONLINE_REMOTE">> :> "HOST_OFFLINE")
    @@ (<<"remote_online", "HOST_OFFLINE">> :> "ONLINE")

controlState ==
    [map |-> ControlMap,
     autoforward |-> <<>>,
     callbacks |-> {<<"on", "CONTROL">>, <<"on", "OFFLINE">>, <<"on", "ATTEMPT_ONLINE">>,
                    <<"on", "ONLINE">>, <<"on", "initial_online_local">>,
                    <<"on", "switch_online_local">>, <<"on", "initial_online_remote">>,
                    <<"on", "switch_online_remote">>}]

initialControlStates == {"EQUIPMENT_OFFLINE", "ATTEMPT_ONLINE", "HOST_OFFLINE", "ONLINE"}

onlineControlStates == {"LOCAL", "REMOTE"}

OnlineStates == {"ONLINE", "ONLINE_LOCAL", "ONLINE_REMOTE"}

\* a message: stream, function and the values of its body
Msg(stream, function, body) == [stream |-> stream, function |-> function, body |-> body]

NoMsg == Msg(0, 0, <<>>)

Do(op, ev, ids, msg) == [op |-> op, ev |-> ev, ids |-> ids, msg |-> msg]

DoFire(ev) == Do("fire", ev, <<>>, NoMsg)

DoReturn == Do("return", "", <<>>, NoMsg)

\* send_response of the value a handler returns
DoSend(msg) == Do("send", "", <<>>, msg)

\* send_and_waitfor_response
DoRequest(msg, caller) == Do("request", caller, <<>>, msg)

DoWait(caller) == Do("wait", caller, <<>>, NoMsg)

\* trigger_collection_events(ceids)
DoTrigger(ceids) == Do("trigger", "", ceids, NoMsg)

\* a local variable that is not bound
Unset == [kind |-> "unset", stream |-> 0, function |-> 0]

\* what send_and_waitfor_response returns: a packet or None
NoResponse == [kind |-> "None", stream |-> 0, function |-> 0]

Packet(stream, function) == [kind |-> "packet", stream |-> stream, function |-> function]

Responses == {NoResponse, Packet(1, 2), Packet(1, 0), Packet(6, 12), Packet(5, 2)}

_on_control_state_control ==
    <<DoFire(IF initialControlState = "ONLINE" THEN "initial_online" ELSE "initial_offline")>>

_on_control_state_offline ==
    IF initialControlState = "EQUIPMENT_OFFLINE" THEN <<DoFire("initial_equipment_offline")>>
    ELSE IF initialControlState = "ATTEMPT_ONLINE" THEN <<DoFire("initial_attempt_online")>>
    ELSE IF initialControlState = "HOST_OFFLINE" THEN <<DoFire("initial_host_offline")>>
    ELSE <<>>

\* an equipment that takes the host to be there without looking
AlwaysCommunicating == TRUE

\* self.communicationState.isstate("COMMUNICATING")
IsCommunicating == communicationState = "COMMUNICATING"

\* the start of _on_control_state_attempt_online, up to are_you_there
_on_control_state_attempt_online ==
    IF ~IsCommunicating
    THEN <<DoFire("attempt_online_fail_host_offline")>>
    ELSE <<DoRequest(Msg(1, 1, <<>>), "are_you_there")>>

\* an equipment that goes online whatever the host answered
AnyResponse(reply) == "attempt_online_success"

\* the rest of _on_control_state_attempt_online, response being what
\* are_you_there returned
AttemptOnlineResult(reply) ==
    IF reply.kind = "None" THEN "attempt_online_fail_host_offline"
    ELSE IF reply.stream # 1 \/ reply.function # 2
         THEN "attempt_online_fail_host_offline"
         ELSE "attempt_online_success"

\* a callback that fires no event
NoPolicyEvent == <<>>

_on_control_state_online ==
    <<DoFire(IF onlineControlState = "REMOTE" THEN "initial_online_remote"
                                              ELSE "initial_online_local")>>

\* the callback of the control state machine under the name cb
ControlCallback(cb) ==
    CASE cb = <<"on", "CONTROL">> -> _on_control_state_control
      [] cb = <<"on", "OFFLINE">> -> _on_control_state_offline
      [] cb = <<"on", "ATTEMPT_ONLINE">> -> _on_control_state_attempt_online
      [] cb = <<"on", "ONLINE">> -> _on_control_state_online
      [] cb \in {<<"on", "initial_online_local">>, <<"on", "switch_online_local">>}
            -> <<DoTrigger(<<CEID_CONTROL_STATE_LOCAL>>)>>
      [] cb \in {<<"on", "initial_online_remote">>, <<"on", "switch_online_remote">>}
            -> <<DoTrigger(<<CEID_CONTROL_STATE_REMOTE>>)>>

ECID_ESTABLISH_COMMUNICATIONS_TIMEOUT == 1
ECID_TIME_FORMAT == 2

\* the equipment constants __init__ defines
_equipment_constants ==
    (ECID_ESTABLISH_COMMUNICATIONS_TIMEOUT :>
        [min_value |-> 10, max_value |-> 120, default_value |-> 10])
    @@ (ECID_TIME_FORMAT :> [min_value |-> 0, max_value |-> 2, default_value |-> 1])

ALARM_SET == 128

\* the alarms of the equipment, added by the application: Alarm(alid, name,
\* text, code, ce_on, ce_off), neither enabled nor set
_alarms ==
    (25 :> [code |-> 1, ce_on |-> 20, ce_off |-> 21, enabled |-> FALSE, set |-> FALSE])

\* the thread is not inside the state machine: its next statement runs
Running == Callable /\ todo # <<>>

\* no operation of the equipment handler is in progress
EquipmentIdle == stack = <<>> /\ todo = <<>> /\ current # "none"

\* the operation name has come to its end
Handled(name) == EquipmentIdle /\ handling.name = name

Sent(msg) == \E i \in 1..Len(eqSent) : eqSent[i] = msg

\* the stream of the message each handler answers
HandlerStream ==
    ("_on_s01f15" :> 1) @@ ("_on_s01f17" :> 1) @@ ("_on_s02f15" :> 2) @@ ("_on_s02f33" :> 2)
    @@ ("_on_s02f35" :> 2) @@ ("_on_s02f37" :> 2) @@ ("_on_s05f03" :> 5)
    @@ ("_on_s02f41" :> 2)

\* An exception leaves the operation.  In a handler it reaches
\* _handle_stream_function, which answers with function 0 of the stream;
\* elsewhere it reaches the caller.
Unwind ==
    IF handling.name \in DOMAIN HandlerStream
    THEN <<DoSend(Msg(HandlerStream[handling.name], 0, <<>>))>>
    ELSE <<>>

\* GemEquipmentHandler.__init__: Fysom(...) fires startup, then start()
EquipmentInit(initial, online) ==
    /\ current = "none"
    /\ stack = <<>>
    /\ todo = <<>>
    /\ initialControlState' = initial
    /\ onlineControlState' = online
    /\ todo' = <<DoFire("startup"), DoFire("start")>>
    /\ handling' = [name |-> "__init__", found |-> current, args |-> <<>>, values |-> <<>>,
                    alarms |-> <<>>]
    /\ ecValues' = [ecid \in DOMAIN _equipment_constants |->
                       _equipment_constants[ecid].default_value]
    /\ alarms' = _alarms
    /\ UNCHANGED <<eqSent, areYouThere, registeredReports, registeredEvents>>
    /\ UNCHANGED <<fsmVars, lowerVars>>

\* the operation name starts with the arguments args and the statements
\* program
StartOperation(name, args, program) ==
    /\ EquipmentIdle
    /\ todo' = program
    /\ handling' = [name |-> name, found |-> current, args |-> args, values |-> ecValues,
                    alarms |-> alarms]
    /\ eqSent' = <<>>
    /\ UNCHANGED <<areYouThere, initialControlState, onlineControlState>>
    /\ UNCHANGED <<fsmVars, lowerVars>>

IsOnline == current \in OnlineStates

_on_s01f15 ==
    /\ StartOperation("_on_s01f15", <<>>,
                      IF IsOnline
                      THEN <<DoFire("remote_offline"),
                             DoTrigger(<<CEID_EQUIPMENT_OFFLINE>>),
                             DoSend(Msg(1, 16, <<0>>))>>
                      ELSE <<DoSend(Msg(1, 16, <<0>>))>>)
    /\ UNCHANGED eventVars

HostOffline == current = "HOST_OFFLINE"

_on_s01f17 ==
    /\ StartOperation("_on_s01f17", <<>>,
                      IF HostOffline
                      THEN <<DoFire("remote_online"), DoSend(Msg(1, 18, <<0>>))>>
                      ELSE IF IsOnline
                           THEN <<DoSend(Msg(1, 18, <<2>>))>>
                           ELSE <<DoSend(Msg(1, 18, <<1>>))>>)
    /\ UNCHANGED eventVars

control_switch_online ==
    /\ StartOperation("control_switch_online", <<>>,
                      <<DoFire("switch_online")>>)
    /\ UNCHANGED eventVars

control_switch_offline ==
    /\ StartOperation("control_switch_offline", <<>>,
                      <<DoFire("switch_offline"), DoTrigger(<<CEID_EQUIPMENT_OFFLINE>>)>>)
    /\ UNCHANGED eventVars

control_switch_online_local ==
    /\ StartOperation("control_switch_online_local", <<>>,
                      <<DoFire("switch_online_local"), Do("policy", "LOCAL", <<>>, NoMsg)>>)
    /\ UNCHANGED eventVars

control_switch_online_remote ==
    /\ StartOperation("control_switch_online_remote", <<>>,
                      <<DoFire("switch_online_remote"), Do("policy", "REMOTE", <<>>, NoMsg)>>)
    /\ UNCHANGED eventVars

\* GemEquipmentHandler.on_connection_closed: the handler of GemHandler, then
\* the two tests of the control state
EquipmentConnectionClosed ==
    /\ EquipmentIdle
    /\ connected
    /\ notifyIdx = 0
    /\ OnConnectionClosed
    /\ communicationState' = CommunicationFail(communicationState)
    /\ todo' = <<Do("if", "switch_offline", <<>>, NoMsg), Do("if", "switch_online", <<>>, NoMsg)>>
    /\ handling' = [name |-> "on_connection_closed", found |-> current, args |-> <<>>,
                     values |-> ecValues, alarms |-> alarms]
    /\ eqSent' = <<>>
    /\ UNCHANGED <<areYouThere, initialControlState, onlineControlState, eventVars, fsmVars,
                   codecVars, linktestVars>>
    /\ UNCHANGED <<isHost, waitCRATimer, commDelayTimer, craExpired, delayExpired,
                   waitEventList, eventSet, wpc, notifyIdx, communicatingFired>>
    /\ UNCHANGED <<connVars, threadVars, envVars, rxVars, activeVars, secsVars>>

\* one of the two tests of on_connection_closed
ControlTest ==
    /\ Running
    /\ Head(todo).op = "if"
    /\ LET ev == Head(todo).ev
           holds == IF ev = "switch_offline" THEN current \in OnlineStates
                                             ELSE current = "EQUIPMENT_OFFLINE"
       IN  todo' = IF holds THEN <<DoFire(ev)>> \o Tail(todo) ELSE Tail(todo)
    /\ UNCHANGED <<handling, eqSent, areYouThere, initialControlState, onlineControlState>>
    /\ UNCHANGED <<eventVars, fsmVars, lowerVars>>

\* self.controlState.<event>(): a FysomError leaves the callbacks and the
\* operation
ControlFire ==
    /\ Running
    /\ Head(todo).op = "fire"
    /\ FsmFire(controlState, Head(todo).ev, FALSE)
    /\ todo' = IF HasTransition \/ ~Can(controlState, Head(todo).ev) THEN Unwind ELSE Tail(todo)
    /\ UNCHANGED <<handling, eqSent, areYouThere, initialControlState, onlineControlState>>
    /\ UNCHANGED <<fired, callbackCalls, eventVars, lowerVars>>

\* the state machine calls a callback
ControlCall ==
    /\ FsmCall(controlState)
    /\ todo' = ControlCallback(CallbackOf(controlState, Top)) \o <<DoReturn>> \o todo
    /\ areYouThere' = IF CallbackOf(controlState, Top) = <<"on", "ATTEMPT_ONLINE">>
                      THEN Unset
                      ELSE areYouThere
    /\ UNCHANGED <<handling, eqSent, initialControlState, onlineControlState>>
    /\ UNCHANGED <<fired, callbackCalls, eventVars, lowerVars>>

ControlSkip == FsmSkip(controlState) /\ UNCHANGED <<fired, callbackCalls, programVars, lowerVars>>

ControlForward == FsmForward(controlState) /\ UNCHANGED <<fired, callbackCalls, programVars, lowerVars>>

ControlReturn ==
    /\ Running
    /\ Head(todo).op = "return"
    /\ FsmReturn(controlState, "None")
    /\ todo' = Tail(todo)
    /\ areYouThere' = IF CallbackOf(controlState, Top) = <<"on", "ATTEMPT_ONLINE">>
                      THEN Unset
                      ELSE areYouThere
    /\ UNCHANGED <<handling, eqSent, initialControlState, onlineControlState>>
    /\ UNCHANGED <<fired, callbackCalls, eventVars, lowerVars>>

\* self.onlineControlState = ...
ControlPolicy ==
    /\ Running
    /\ Head(todo).op = "policy"
    /\ onlineControlState' = Head(todo).ev
    /\ todo' = Tail(todo)
    /\ UNCHANGED <<handling, eqSent, areYouThere, initialControlState>>
    /\ UNCHANGED <<eventVars, fsmVars, lowerVars>>

\* a link that is always there and enabled
Subscribed(ceid) == TRUE

Enabled(ceid) ==
    /\ ceid \in DOMAIN registeredEvents
    /\ registeredEvents[ceid].enabled

\* _build_collection_event(ceid) looks every report of the link up in
\* _registered_reports: a report that is not there is a KeyError
BuildRaises(ceid) ==
    \E i \in 1..Len(registeredEvents[ceid].reports) :
        registeredEvents[ceid].reports[i] \notin registeredReports

\* one pass of the loop of trigger_collection_events
TriggerCollectionEvent ==
    /\ Running
    /\ Head(todo).op = "trigger"
    /\ LET ceids == Head(todo).ids
       IN  IF ceids # <<>> /\ Enabled(Head(ceids)) /\ BuildRaises(Head(ceids))
           THEN /\ todo' = Unwind
                /\ stack' = <<>>
           ELSE /\ todo' = IF ceids = <<>> THEN Tail(todo)
                           ELSE IF Enabled(Head(ceids))
                                THEN <<DoRequest(Msg(6, 11, <<Head(ceids)>>), ""),
                                       DoTrigger(Tail(ceids))>> \o Tail(todo)
                                ELSE <<DoTrigger(Tail(ceids))>> \o Tail(todo)
                /\ UNCHANGED stack
    /\ UNCHANGED <<handling, eqSent, areYouThere, initialControlState, onlineControlState>>
    /\ UNCHANGED <<current, transition, fsmError, callbackCalls, fired>>
    /\ UNCHANGED <<eventVars, lowerVars>>

\* what the caller of send_and_waitfor_response does with the response
AfterResponse(caller, reply) ==
    IF caller = "are_you_there" THEN <<DoFire(AttemptOnlineResult(reply))>> ELSE <<>>

\* send_and_waitfor_response: the packet is sent and the thread waits, or
\* the packet cannot be sent and the call returns None
SendRequest(ok) ==
    /\ Running
    /\ Head(todo).op = "request"
    /\ eqSent' = Append(eqSent, Head(todo).msg)
    /\ IF ok
       THEN /\ todo' = <<DoWait(Head(todo).ev)>> \o Tail(todo)
            /\ UNCHANGED areYouThere
       ELSE /\ todo' = AfterResponse(Head(todo).ev, NoResponse) \o Tail(todo)
            /\ areYouThere' = IF Head(todo).ev = "are_you_there" THEN NoResponse
                                                                 ELSE areYouThere
    /\ UNCHANGED <<handling, initialControlState, onlineControlState>>
    /\ UNCHANGED <<eventVars, fsmVars, lowerVars>>

\* send_and_waitfor_response returns: a packet with the system id of the
\* request has arrived, or T3 has passed
ReceiveResponse(reply) ==
    /\ Running
    /\ Head(todo).op = "wait"
    /\ todo' = AfterResponse(Head(todo).ev, reply) \o Tail(todo)
    /\ areYouThere' = IF Head(todo).ev = "are_you_there" THEN reply ELSE areYouThere
    /\ UNCHANGED <<handling, eqSent, initialControlState, onlineControlState>>
    /\ UNCHANGED <<eventVars, fsmVars, lowerVars>>

\* _handle_stream_function sends what the handler returned
SendReply ==
    /\ Running
    /\ Head(todo).op = "send"
    /\ eqSent' = Append(eqSent, Head(todo).msg)
    /\ todo' = Tail(todo)
    /\ UNCHANGED <<handling, areYouThere, initialControlState, onlineControlState>>
    /\ UNCHANGED <<eventVars, fsmVars, lowerVars>>

(***************************************************************************)
(* Reports, links of collection events to reports, and their triggering.   *)
(* _registered_collection_events is a function from the linked CEIDs to    *)
(* the link: its reports and its flag enabled.                             *)
(***************************************************************************)
SVID_CLOCK == 1001

\* the keys of _collection_events
_collection_events == {CEID_EQUIPMENT_OFFLINE, CEID_CONTROL_STATE_LOCAL,
                       CEID_CONTROL_STATE_REMOTE, 20, 21}

\* the keys of _status_variables; _data_values is empty
_status_variables == {SVID_CLOCK, 1002, 1003, 1004, 1005}

Contains(seq, x) == \E i \in 1..Len(seq) : seq[i] = x

RECURSIVE Without(_, _)
\* list.remove(x) on a list that contains x
Without(seq, x) ==
    IF seq = <<>> THEN <<>>
    ELSE IF Head(seq) = x THEN Tail(seq)
    ELSE <<Head(seq)>> \o Without(Tail(seq), x)

Drop(f, k) == [x \in DOMAIN f \ {k} |-> f[x]]

\* a link as S2F35 makes it: a link that is enabled from the start
EnabledLink(reports) == [reports |-> reports, enabled |-> TRUE]

CollectionEventLink(reports) == [reports |-> reports, enabled |-> FALSE]

RECURSIVE DefineCheck(_, _)
\* the pre check of _on_s02f33: DRACK after the reports of data
DefineCheck(data, drack) ==
    IF data = <<>> THEN drack
    ELSE LET report == Head(data)
         IN  DefineCheck(Tail(data),
                 IF report.RPTID \in registeredReports /\ Len(report.VID) > 0 THEN 3
                 ELSE IF \E i \in 1..Len(report.VID) : report.VID[i] \notin _status_variables
                      THEN 4
                      ELSE drack)

RECURSIVE Unlink(_, _, _)
\* the report rptid is taken from the links of the CEIDs in ceids; a link
\* without reports is removed
Unlink(links, ceids, rptid) ==
    IF ceids = {} THEN links
    ELSE LET c == CHOOSE x \in ceids : TRUE
             link == links[c]
             left == Without(link.reports, rptid)
             next == IF ~Contains(link.reports, rptid) THEN links
                     ELSE IF left = <<>> THEN Drop(links, c)
                     ELSE [links EXCEPT ![c] = [link EXCEPT !.reports = left]]
         IN  Unlink(next, ceids \ {c}, rptid)

RECURSIVE DefineApply(_, _, _)
\* the reports of data are added or removed, one after the other
DefineApply(data, reports, links) ==
    IF data = <<>> THEN <<reports, links>>
    ELSE LET report == Head(data)
         IN  IF report.VID = <<>>
             THEN DefineApply(Tail(data), reports \ {report.RPTID},
                              Unlink(links, DOMAIN links, report.RPTID))
             ELSE DefineApply(Tail(data), reports \cup {report.RPTID}, links)

_on_s02f33(data) ==
    LET DRACK == DefineCheck(data, 0)
        result == IF DRACK # 0 THEN <<registeredReports, registeredEvents>>
                  ELSE IF data = <<>> THEN <<{}, <<>>>>
                  ELSE DefineApply(data, registeredReports, registeredEvents)
    IN  /\ StartOperation("_on_s02f33", data, <<DoSend(Msg(2, 34, <<DRACK>>))>>)
        /\ registeredReports' = result[1]
        /\ registeredEvents' = result[2]
        /\ UNCHANGED <<ecValues, alarms>>

RECURSIVE LinkCheckReports(_, _, _)
LinkCheckReports(ceid, rptids, lrack) ==
    IF rptids = <<>> THEN lrack
    ELSE LET rptid == Head(rptids)
             linked == /\ ceid \in DOMAIN registeredEvents
                       /\ Contains(registeredEvents[ceid].reports, rptid)
             a == IF linked THEN 3 ELSE lrack
             b == IF rptid \notin registeredReports THEN 5 ELSE a
         IN  LinkCheckReports(ceid, Tail(rptids), b)

RECURSIVE LinkCheck(_, _)
\* the pre check of _on_s02f35: LRACK after the events of data
LinkCheck(data, lrack) ==
    IF data = <<>> THEN lrack
    ELSE LET event == Head(data)
             a == IF event.CEID \notin _collection_events THEN 4 ELSE lrack
         IN  LinkCheck(Tail(data), LinkCheckReports(event.CEID, event.RPTID, a))

RECURSIVE LinkApply(_, _)
LinkApply(data, links) ==
    IF data = <<>> THEN links
    ELSE LET event == Head(data)
             c == event.CEID
             next == IF event.RPTID = <<>> THEN Drop(links, c)
                     ELSE IF c \in DOMAIN links
                          THEN [links EXCEPT ![c].reports = @ \o event.RPTID]
                          ELSE links @@ (c :> CollectionEventLink(event.RPTID))
         IN  LinkApply(Tail(data), next)

_on_s02f35(data) ==
    LET LRACK == LinkCheck(data, 0)
    IN  /\ StartOperation("_on_s02f35", data, <<DoSend(Msg(2, 36, <<LRACK>>))>>)
        /\ registeredEvents' = IF LRACK = 0 THEN LinkApply(data, registeredEvents)
                                            ELSE registeredEvents
        /\ UNCHANGED <<registeredReports, ecValues, alarms>>

\* _set_ce_state: the links after it, and its result
SetCeState(ceed, ceids) ==
    LET named == IF ceids = <<>> THEN DOMAIN registeredEvents
                 ELSE {ceids[i] : i \in 1..Len(ceids)} \cap DOMAIN registeredEvents
    IN  [links |-> [c \in DOMAIN registeredEvents |->
                       IF c \in named THEN [registeredEvents[c] EXCEPT !.enabled = ceed]
                                      ELSE registeredEvents[c]],
         result |-> \A i \in 1..Len(ceids) : ceids[i] \in DOMAIN registeredEvents]

_on_s02f37(ceed, ceids) ==
    LET state == SetCeState(ceed, ceids)
    IN  /\ StartOperation("_on_s02f37", ceids,
                           <<DoSend(Msg(2, 38, <<IF state.result THEN 0 ELSE 1>>))>>)
        /\ registeredEvents' = state.links
        /\ UNCHANGED <<registeredReports, ecValues, alarms>>

\* the application calls trigger_collection_events(ceids)
trigger_collection_events(ceids) ==
    /\ StartOperation("trigger_collection_events", ceids, <<DoTrigger(ceids)>>)
    /\ UNCHANGED eventVars

\* the equipment handler before __init__ builds the control state machine
InitEquipment == InitFor(PyInt(0), FALSE)

\* the report the host defines for the control events, and its deletion
ControlReports == {<<[RPTID |-> 1, VID |-> <<SVID_CLOCK>>]>>, <<[RPTID |-> 1, VID |-> <<>>]>>}

\* the links the host defines for the control events: _on_s02f35 takes a
\* list of RPTIDs as it comes, here one that names the report twice
ControlLinks ==
    {<<[CEID |-> CEID_EQUIPMENT_OFFLINE, RPTID |-> <<1, 1>>],
       [CEID |-> CEID_CONTROL_STATE_LOCAL, RPTID |-> <<1, 1>>],
       [CEID |-> CEID_CONTROL_STATE_REMOTE, RPTID |-> <<1, 1>>]>>}

\* the host answers the S1F13 of the equipment
ControlPackets == {HsmsStreamFunctionHeader(PyInt(1), 1, 14, FALSE, sessionID)}

\* on_connection_established; every connection leads to one S1F13.  The
\* receiver thread starts the next connection when on_connection_closed has
\* returned (_on_hsms_connection_close at the end of __receiver_thread).
EquipmentConnectionEstablished ==
    /\ Len(sentPackets) < MaxSessions
    /\ handling.name = "on_connection_closed" => EquipmentIdle
    /\ GemConnectionEstablished

\* the S1F14 of the host arrives while the equipment waits for it
EstablishCommunicationReply ==
    /\ communicationState = "WAIT_CRA"
    /\ \E p \in ControlPackets : GemPacketReceived(p)

\* The control state of an equipment: the host asks for online and offline,
\* the operator switches, connections are established and closed.
NextControl ==
    \/ \E initial \in initialControlStates, online \in onlineControlStates :
          EquipmentInit(initial, online)
    \/ _on_s01f15
    \/ _on_s01f17
    \/ control_switch_online
    \/ control_switch_offline
    \/ control_switch_online_local
    \/ control_switch_online_remote
    \/ EquipmentConnectionClosed
    \/ ControlTest
    \/ ControlFire
    \/ ControlCall
    \/ ControlSkip
    \/ ControlForward
    \/ ControlReturn
    \/ ControlPolicy
    \/ TriggerCollectionEvent
    \/ \E ok \in BOOLEAN : SendRequest(ok)
    \/ \E reply \in Responses : ReceiveResponse(reply)
    \/ SendReply
    \/ \E data \in ControlReports : _on_s02f33(data)
    \/ \E data \in ControlLinks : _on_s02f35(data)
    \/ \E ceed \in BOOLEAN : _on_s02f37(ceed, <<>>)
    \/ CommunicationStateEnable
    \/ EquipmentConnectionEstablished
    \/ OnHsmsSelect
    \/ EstablishCommunicationReply
    \/ NotifyStep

SpecControl == InitEquipment /\ [][NextControl]_vars

(***************************************************************************)
(* Equipment constants: S2F15 writes them.                                 *)
(***************************************************************************)
RECURSIVE EacCheck(_, _)
\* the loop of _on_s02f15 over the items of the message: eac after it
EacCheck(message, eac) ==
    IF message = <<>> THEN eac
    ELSE LET ec == Head(message)
             constant == _equipment_constants[ec.ECID]
             a == IF ec.ECV < constant.min_value THEN 3 ELSE eac
             b == IF ec.ECV > constant.max_value THEN 3 ELSE a
         IN  EacCheck(Tail(message),
                      IF ec.ECID \notin DOMAIN _equipment_constants THEN 1 ELSE b)

RECURSIVE SetEcValues(_, _)
\* _set_ec_value for the items of the message, one after the other
SetEcValues(message, values) ==
    IF message = <<>> THEN values
    ELSE SetEcValues(Tail(message), [values EXCEPT ![Head(message).ECID] = Head(message).ECV])

_on_s02f15(message) ==
    LET eac == EacCheck(message, 0)
    IN  /\ StartOperation("_on_s02f15", message, <<DoSend(Msg(2, 16, <<eac>>))>>)
        /\ ecValues' = IF eac = 0 THEN SetEcValues(message, ecValues) ELSE ecValues
        /\ UNCHANGED <<registeredReports, registeredEvents, alarms>>

\* the items the host writes: both constants, each with its limits and the
\* values next to them, and a constant that does not exist
EcItems ==
    {[ECID |-> ECID_ESTABLISH_COMMUNICATIONS_TIMEOUT, ECV |-> v] : v \in {9, 10, 120, 121}}
    \cup {[ECID |-> ECID_TIME_FORMAT, ECV |-> v] : v \in {-1, 0, 2, 3}}
    \cup {[ECID |-> 99, ECV |-> 5]}

RECURSIVE Lists(_, _)
\* the lists of up to n elements of the set
Lists(set, n) ==
    IF n = 0 THEN {<<>>}
    ELSE LET shorter == Lists(set, n - 1)
         IN  shorter \cup {Append(l, x) : l \in shorter, x \in set}

\* An equipment whose constants the host writes.
NextConstants ==
    \/ \E initial \in initialControlStates, online \in onlineControlStates :
          EquipmentInit(initial, online)
    \/ ControlFire
    \/ ControlCall
    \/ ControlSkip
    \/ ControlForward
    \/ ControlReturn
    \/ \E message \in Lists(EcItems, MaxItems) : _on_s02f15(message)
    \/ SendReply

SpecConstants == InitEquipment /\ [][NextConstants]_vars

OutOfRange(ec) ==
    /\ ec.ECID \in DOMAIN _equipment_constants
    /\ \/ ec.ECV < _equipment_constants[ec.ECID].min_value
       \/ ec.ECV > _equipment_constants[ec.ECID].max_value

\* C24: an S2F15 with a value outside [min, max] of its constant is answered
\* with EAC 3 and changes no constant; an S2F15 whose constants all exist and
\* whose values are all within the limits, the limits included, is answered
\* with EAC 0 and every constant it names has the value written last.
C24_WriteAllOrNothing ==
    Handled("_on_s02f15") =>
        LET message == handling.args
            items == {message[i] : i \in 1..Len(message)}
        IN  /\ (\E ec \in items : OutOfRange(ec))
                  => eqSent = <<Msg(2, 16, <<3>>)>> /\ ecValues = handling.values
            /\ (\A ec \in items : ec.ECID \in DOMAIN _equipment_constants /\ ~OutOfRange(ec))
                  => /\ eqSent = <<Msg(2, 16, <<0>>)>>
                     /\ \A i \in 1..Len(message) :
                           (\A j \in (i + 1)..Len(message) : message[j].ECID # message[i].ECID)
                               => ecValues[message[i].ECID] = message[i].ECV

\* C21: S1F15 is answered with S1F16, OFLACK 0, whatever the control state.
\* Found in ONLINE, ONLINE_LOCAL or ONLINE_REMOTE the control state is
\* HOST_OFFLINE afterwards and the collection event CEID_EQUIPMENT_OFFLINE was
\* triggered, so that its S6F11 went out exactly if its link is enabled; found
\* in any other state the control state is the same afterwards and nothing
\* but the S1F16 went out.
C21_RequestOffline ==
    Handled("_on_s01f15") =>
        /\ eqSent # <<>>
        /\ eqSent[Len(eqSent)] = Msg(1, 16, <<0>>)
        /\ IF handling.found \in OnlineStates
           THEN /\ current = "HOST_OFFLINE"
                /\ eqSent = IF Enabled(CEID_EQUIPMENT_OFFLINE)
                            THEN <<Msg(6, 11, <<CEID_EQUIPMENT_OFFLINE>>), Msg(1, 16, <<0>>)>>
                            ELSE <<Msg(1, 16, <<0>>)>>
           ELSE /\ current = handling.found
                /\ eqSent = <<Msg(1, 16, <<0>>)>>

\* C22: S1F17 is answered with S1F18.  ONLACK is 0 exactly if the control
\* state was HOST_OFFLINE, and then the state is ONLINE_REMOTE or ONLINE_LOCAL
\* as onlineControlState says; it is 2 exactly if the state was ONLINE,
\* ONLINE_LOCAL or ONLINE_REMOTE, and 1 in every other state; with 1 and 2
\* the control state is the same afterwards.
C22_RequestOnline ==
    Handled("_on_s01f17") =>
        /\ eqSent # <<>>
        /\ eqSent[Len(eqSent)] =
              Msg(1, 18, <<IF handling.found = "HOST_OFFLINE" THEN 0
                           ELSE IF handling.found \in OnlineStates THEN 2 ELSE 1>>)
        /\ IF handling.found = "HOST_OFFLINE"
           THEN current = IF onlineControlState = "REMOTE" THEN "ONLINE_REMOTE"
                                                           ELSE "ONLINE_LOCAL"
           ELSE current = handling.found

\* the control state leaves ATTEMPT_ONLINE in this step
LeavesAttemptOnline == current = "ATTEMPT_ONLINE" /\ current' # "ATTEMPT_ONLINE"

\* the state machine calls _on_control_state_attempt_online in this step
EntersAttemptOnline ==
    /\ current = "ATTEMPT_ONLINE"
    /\ stack # <<>>
    /\ Len(stack') = Len(stack)
    /\ Top.phase = "enter"
    /\ ~Top.incb
    /\ stack'[Len(stack)].incb

C29_UnmappedEventFails ==
    [][\A evt \in TestEvents, caught \in BOOLEAN :
        (<<evt, current>> \notin DOMAIN TestMap /\ TestFire(evt, caught))
            => /\ fsmError' \in {"inappropriate", "in_progress"}
               /\ current' = current
               /\ transition' = transition
               /\ callbackCalls' = callbackCalls
               /\ stack' \in {stack, <<>>}]_vars

\* C29 happens: after callbacks ran and the machine came to rest in state B, an
\* event without an entry for B was refused.
C29_Refused ==
    /\ fsmError = "inappropriate"
    /\ current = "B"
    /\ stack = <<>>
    /\ callbackCalls > 0

\* C30 as stated: an event with an entry for the current state that is fired
\* from inside any callback of a transition in progress fails with the
\* transition-in-progress error and starts nothing.
C30_ReentrantAlwaysFails ==
    [][\A evt \in TestEvents, caught \in BOOLEAN :
        (InCallback /\ <<evt, current>> \in DOMAIN TestMap /\ TestFire(evt, caught))
            => /\ fsmError' = "in_progress"
               /\ stack' \in {stack, <<>>}]_vars

\* C30 amended: an event fired while a transition is pending, that is from
\* inside onleave<Src> of a transition that changes the state or after
\* onleave<Src> deferred it, fails with the transition-in-progress error,
\* starts nothing and changes neither current nor the pending transition.
C30_PendingTransitionFails ==
    [][\A evt \in TestEvents, caught \in BOOLEAN :
        (transition # NoTransition /\ TestFire(evt, caught))
            => /\ fsmError' = "in_progress"
               /\ current' = current
               /\ transition' = transition
               /\ callbackCalls' = callbackCalls
               /\ stack' \in {stack, <<>>}]_vars

\* C30 happens: inside onleaveA of the event go, an event with an entry for A
\* was fired and refused, and the callback goes on.
C30_RefusedInLeave ==
    /\ InCallback
    /\ Top.phase = "leave"
    /\ Top.event = "go"
    /\ current = "A"
    /\ fsmError = "in_progress"

(***************************************************************************)
(* Collection events: the host defines reports and links and enables them, *)
(* the application triggers events.                                        *)
(***************************************************************************)
\* the links the host asks for: none, the report, the report named twice
EventLinks ==
    {<<[CEID |-> ceid, RPTID |-> rptids]>> :
        ceid \in {CEID_EQUIPMENT_OFFLINE, CEID_CONTROL_STATE_LOCAL},
        rptids \in {<<>>, <<1>>, <<1, 1>>}}

\* the events S2F37 and the application name; 9 is no collection event
EventIds == {CEID_EQUIPMENT_OFFLINE, CEID_CONTROL_STATE_LOCAL, 9}

NextEvents ==
    \/ \E initial \in initialControlStates, online \in onlineControlStates :
          EquipmentInit(initial, online)
    \/ ControlFire
    \/ ControlCall
    \/ ControlSkip
    \/ ControlForward
    \/ ControlReturn
    \/ \E data \in ControlReports : _on_s02f33(data)
    \/ \E data \in EventLinks : _on_s02f35(data)
    \/ \E ceed \in BOOLEAN, ceids \in Lists(EventIds, MaxItems) : _on_s02f37(ceed, ceids)
    \/ \E ceids \in Lists(EventIds, MaxItems) : trigger_collection_events(ceids)
    \/ TriggerCollectionEvent
    \/ \E ok \in BOOLEAN : SendRequest(ok)
    \/ \E reply \in Responses : ReceiveResponse(reply)
    \/ SendReply

SpecEvents == InitEquipment /\ [][NextEvents]_vars

RECURSIVE Emitted(_)
\* one S6F11 for each event of ceids whose link is there and enabled
Emitted(ceids) ==
    IF ceids = <<>> THEN <<>>
    ELSE (IF Enabled(Head(ceids)) THEN <<Msg(6, 11, <<Head(ceids)>>)>> ELSE <<>>)
         \o Emitted(Tail(ceids))

\* C25: when trigger_collection_events(ceids) has come to its end, the
\* messages it sent are the S6F11 of exactly the listed events that have an
\* enabled link, one for each, in the order of the list.
C25_TriggerEmits ==
    Handled("trigger_collection_events") => eqSent = Emitted(handling.args)


(***************************************************************************)
(* Alarms: the host enables them with S5F3, the application sets and       *)
(* clears them.                                                            *)
(***************************************************************************)
ALED_ENABLE == 128

RECURSIVE BitOr(_, _)
\* a | b of two non negative integers
BitOr(a, b) ==
    IF a = 0 THEN b
    ELSE IF b = 0 THEN a
    ELSE (IF a % 2 = 1 \/ b % 2 = 1 THEN 1 ELSE 0) + 2 * BitOr(a \div 2, b \div 2)

\* S5F1 with ALCD and ALID
AlarmReport(alcd, alid) == Msg(5, 1, <<alcd, alid>>)

DoMark(alid, set) == Do("mark", IF set THEN "set" ELSE "clear", <<alid>>, NoMsg)

\* an equipment that reports every alarm
AlwaysReported(alid) == TRUE

\* if self.alarms[alid].enabled
Reported(alid) == alarms[alid].enabled

\* set_alarm(alid): ValueError for an unknown alarm, nothing for one that is
\* set
set_alarm(alid) ==
    /\ StartOperation("set_alarm", <<alid>>,
          IF alid \notin DOMAIN alarms \/ alarms[alid].set THEN <<>>
          ELSE (IF Reported(alid)
                THEN <<DoRequest(AlarmReport(BitOr(alarms[alid].code, ALARM_SET), alid), "")>>
                ELSE <<>>)
               \o <<DoMark(alid, TRUE), DoTrigger(<<alarms[alid].ce_on>>)>>)
    /\ UNCHANGED eventVars

\* clear_alarm(alid): ValueError for an unknown alarm, nothing for one that
\* is not set
clear_alarm(alid) ==
    /\ StartOperation("clear_alarm", <<alid>>,
          IF alid \notin DOMAIN alarms \/ ~alarms[alid].set THEN <<>>
          ELSE (IF Reported(alid)
                THEN <<DoRequest(AlarmReport(alarms[alid].code, alid), "")>>
                ELSE <<>>)
               \o <<DoMark(alid, FALSE), DoTrigger(<<alarms[alid].ce_off>>)>>)
    /\ UNCHANGED eventVars

\* self.alarms[alid].set = True, or False
MarkAlarm ==
    /\ Running
    /\ Head(todo).op = "mark"
    /\ alarms' = [alarms EXCEPT ![Head(todo).ids[1]].set = (Head(todo).ev = "set")]
    /\ todo' = Tail(todo)
    /\ UNCHANGED <<registeredReports, registeredEvents, ecValues>>
    /\ UNCHANGED <<handling, eqSent, areYouThere, initialControlState, onlineControlState>>
    /\ UNCHANGED <<fsmVars, lowerVars>>

_on_s05f03(alid, aled) ==
    /\ StartOperation("_on_s05f03", <<alid, aled>>,
                      <<DoSend(Msg(5, 4, <<IF alid \in DOMAIN alarms THEN 0 ELSE 1>>))>>)
    /\ alarms' = IF alid \in DOMAIN alarms
                 THEN [alarms EXCEPT ![alid].enabled = (aled = ALED_ENABLE)]
                 ELSE alarms
    /\ UNCHANGED <<registeredReports, registeredEvents, ecValues>>

\* the alarms the application and the host name; 99 is no alarm
AlarmIds == DOMAIN _alarms \cup {99}

\* the links the host defines for the events of the alarms
AlarmLinks ==
    {<<[CEID |-> _alarms[alid].ce_on, RPTID |-> <<1, 1>>],
       [CEID |-> _alarms[alid].ce_off, RPTID |-> <<1, 1>>]>> : alid \in DOMAIN _alarms}

NextAlarms ==
    \/ \E initial \in initialControlStates, online \in onlineControlStates :
          EquipmentInit(initial, online)
    \/ ControlFire
    \/ ControlCall
    \/ ControlSkip
    \/ ControlForward
    \/ ControlReturn
    \/ \E alid \in AlarmIds, aled \in {0, ALED_ENABLE} : _on_s05f03(alid, aled)
    \/ \E alid \in AlarmIds : set_alarm(alid)
    \/ \E alid \in AlarmIds : clear_alarm(alid)
    \/ MarkAlarm
    \/ \E data \in ControlReports : _on_s02f33(data)
    \/ \E data \in AlarmLinks : _on_s02f35(data)
    \/ \E ceed \in BOOLEAN : _on_s02f37(ceed, <<>>)
    \/ TriggerCollectionEvent
    \/ \E ok \in BOOLEAN : SendRequest(ok)
    \/ \E reply \in Responses : ReceiveResponse(reply)
    \/ SendReply

SpecAlarms == InitEquipment /\ [][NextAlarms]_vars

\* set_alarm(alid) of a known alarm that was not set has come to its end
WasSet(alid) ==
    /\ Handled("set_alarm")
    /\ handling.args = <<alid>>
    /\ alid \in DOMAIN alarms
    /\ ~handling.alarms[alid].set

\* clear_alarm(alid) of a known alarm that was set has come to its end
WasCleared(alid) ==
    /\ Handled("clear_alarm")
    /\ handling.args = <<alid>>
    /\ alid \in DOMAIN alarms
    /\ handling.alarms[alid].set

\* bit 7 of an alarm code byte
Bit7(alcd) == (alcd \div 128) % 2

IsAlarmReport(msg, alid) ==
    /\ msg.stream = 5
    /\ msg.function = 1
    /\ msg.body[2] = alid

EventFollows(first, ceid) ==
    /\ \A i \in first..Len(eqSent) : eqSent[i] = Msg(6, 11, <<ceid>>)
    /\ Len(eqSent) <= first
    /\ ~Enabled(ceid) => Len(eqSent) < first

RECURSIVE BitAnd(_, _)
\* a & b of two non negative integers
BitAnd(a, b) ==
    IF a = 0 \/ b = 0 THEN 0
    ELSE (IF a % 2 = 1 /\ b % 2 = 1 THEN 1 ELSE 0) + 2 * BitAnd(a \div 2, b \div 2)

\* formatCode of the classes; SecsVarArray has the code of SecsVarList
FormatCodes ==
    ("L" :> 0) @@ ("ARRAY" :> 0) @@ ("B" :> 8) @@ ("BOOLEAN" :> 9) @@ ("A" :> 16)
    @@ ("I8" :> 24) @@ ("I1" :> 25) @@ ("I2" :> 26) @@ ("I4" :> 28)
    @@ ("U8" :> 40) @@ ("U1" :> 41) @@ ("U2" :> 42) @@ ("U4" :> 44)
    @@ ("DYNAMIC" :> -1)

\* _bytes of the number classes
NumberBytes ==
    ("I8" :> 8) @@ ("I1" :> 1) @@ ("I2" :> 2) @@ ("I4" :> 4)
    @@ ("U8" :> 8) @@ ("U1" :> 1) @@ ("U2" :> 2) @@ ("U4" :> 4)

NumberTypes == DOMAIN NumberBytes

\* the classes whose struct code is signed
SignedTypes == {"I8", "I1", "I2", "I4"}

\* an item header with three length bytes whatever the length
ThreeLengthBytes(formatCode, length) ==
    [error |-> IF length < 0 \/ length > 16777215 THEN "ValueError" ELSE "none",
     bytes |-> IF length < 0 \/ length > 16777215 THEN <<>>
               ELSE <<BitOr(formatCode * 4, 3), BitAnd(length, 16711680) \div 65536,
                      BitAnd(length, 65280) \div 256, BitAnd(length, 255)>>]

\* SecsVar.encode_item_header: the bytes, or the ValueError
encode_item_header(formatCode, length) ==
    [error |-> IF length < 0 \/ length > 16777215 THEN "ValueError" ELSE "none",
     bytes |-> IF length < 0 \/ length > 16777215 THEN <<>>
               ELSE IF length > 65535
               THEN <<BitOr(formatCode * 4, 3), BitAnd(length, 16711680) \div 65536,
                      BitAnd(length, 65280) \div 256, BitAnd(length, 255)>>
               ELSE IF length > 255
               THEN <<BitOr(formatCode * 4, 2), BitAnd(length, 65280) \div 256,
                      BitAnd(length, 255)>>
               ELSE <<BitOr(formatCode * 4, 1), BitAnd(length, 255)>>]

RECURSIVE ReadLength(_, _, _, _)
\* the loop of decode_item_header over the length bytes
ReadLength(text, text_pos, length_bytes, length) ==
    IF length_bytes = 0 THEN length
    ELSE ReadLength(text, text_pos + 1, length_bytes - 1, length * 256 + text[text_pos + 1])

\* SecsVar.decode_item_header of a variable with formatCode selfFormat
decode_item_header(selfFormat, text, text_pos) ==
    IF Len(text) = 0 THEN [NoResult EXCEPT !.error = "ValueError"]
    ELSE IF text_pos >= Len(text) THEN [NoResult EXCEPT !.error = "IndexError"]
    ELSE LET format_byte == text[text_pos + 1]
             format_code == BitAnd(format_byte, 252) \div 4
             length_bytes == BitAnd(format_byte, 3)
         IN  IF text_pos + length_bytes >= Len(text)
             THEN [NoResult EXCEPT !.error = "IndexError"]
             ELSE IF 0 <= selfFormat /\ selfFormat # format_code
             THEN [NoResult EXCEPT !.error = "ValueError"]
             ELSE [error |-> "none",
                   text_pos |-> text_pos + 1 + length_bytes,
                   format_code |-> format_code,
                   length |-> ReadLength(text, text_pos + 1, length_bytes, 0)]

RECURSIVE Pack(_, _)
\* struct.pack big endian: the n low bytes of value, two's complement
Pack(value, n) == IF n = 0 THEN <<>> ELSE Pack(value \div 256, n - 1) \o <<value % 256>>

RECURSIVE UnpackFrom(_, _)
UnpackFrom(text, value) ==
    IF text = <<>> THEN value ELSE UnpackFrom(Tail(text), value * 256 + Head(text))

\* struct.unpack big endian of the bytes of one number
Unpack(text, signed) ==
    UnpackFrom(Tail(text), IF signed /\ Head(text) >= 128 THEN Head(text) - 256 ELSE Head(text))

\* text[from:from + length]
Slice(text, from, length) ==
    SubSeq(text, from + 1, IF from + length < Len(text) THEN from + length ELSE Len(text))

\* SecsVar.generate(dataformat): a new variable of the class
Generate(type) ==
    IF type = "DYNAMIC" THEN [type |-> type, value |-> NoVar]
    ELSE [type |-> type, value |-> <<>>]

RECURSIVE encode(_)
\* encode() of the classes
encode(var) ==
    CASE var.type = "DYNAMIC" -> encode(var.value)
      [] var.type \in {"L", "ARRAY"} ->
            encode_item_header(0, Len(var.value)).bytes
            \o Concat([i \in 1..Len(var.value) |-> encode(var.value[i])])
      [] var.type = "BOOLEAN" ->
            encode_item_header(FormatCodes[var.type], Len(var.value)).bytes
            \o [i \in 1..Len(var.value) |-> IF var.value[i] THEN 1 ELSE 0]
      [] var.type \in NumberTypes ->
            encode_item_header(FormatCodes[var.type],
                               Len(var.value) * NumberBytes[var.type]).bytes
            \o Concat([i \in 1..Len(var.value) |-> Pack(var.value[i], NumberBytes[var.type])])
      [] OTHER ->
            encode_item_header(FormatCodes[var.type], Len(var.value)).bytes \o var.value

\* what a decode gives: the variable after it, the position it returns or
\* the exception it raises
Decoded(var, pos, error) == [var |-> var, pos |-> pos, error |-> error]

\* the class SecsVarDynamic.decode makes for a format code; none for others
DynamicTypes ==
    (0 :> "ARRAY") @@ (8 :> "B") @@ (9 :> "BOOLEAN") @@ (16 :> "A")
    @@ (24 :> "I8") @@ (25 :> "I1") @@ (26 :> "I2") @@ (28 :> "I4")
    @@ (40 :> "U8") @@ (41 :> "U1") @@ (42 :> "U2") @@ (44 :> "U4")

RECURSIVE decode(_, _, _)
RECURSIVE DecodeFields(_, _, _, _, _)
RECURSIVE DecodeItems(_, _, _, _, _)

\* SecsVarList.decode: the loop over the first length fields
DecodeFields(fields, text, text_pos, i, length) ==
    IF i > length THEN Decoded(fields, text_pos, "none")
    ELSE IF i > Len(fields) THEN Decoded(fields, text_pos, "IndexError")
    ELSE LET field == decode(fields[i], text, text_pos)
         IN  IF field.error # "none" THEN Decoded(fields, text_pos, field.error)
             ELSE DecodeFields([fields EXCEPT ![i] = field.var], text, field.pos, i + 1, length)

\* SecsVarArray.decode: the loop that makes length new items
DecodeItems(item, items, text, text_pos, length) ==
    IF length = 0 THEN Decoded(items, text_pos, "none")
    ELSE LET new_object == decode(Generate(item), text, text_pos)
         IN  IF new_object.error # "none" THEN Decoded(items, text_pos, new_object.error)
             ELSE DecodeItems(item, Append(items, new_object.var), text, new_object.pos,
                              length - 1)

\* decode(data, start) of the classes
decode(self, text, start) ==
    LET header == decode_item_header(FormatCodes[self.type], text, start)
        text_pos == header.text_pos
        length == header.length
    IN  IF header.error # "none" THEN Decoded(self, start, header.error)
        ELSE CASE self.type = "DYNAMIC" ->
                    IF header.format_code \notin DOMAIN DynamicTypes
                    THEN Decoded(self, start, "ValueError")
                    ELSE LET made == IF header.format_code = 0
                                     THEN [type |-> "ARRAY", item |-> "DYNAMIC", value |-> <<>>]
                                     ELSE Generate(DynamicTypes[header.format_code])
                             inner == decode(made, text, start)
                         IN  Decoded([self EXCEPT !.value = inner.var], inner.pos, inner.error)
               [] self.type = "L" ->
                    LET fields == DecodeFields(self.value, text, text_pos, 1, length)
                    IN  Decoded([self EXCEPT !.value = fields.var], fields.pos, fields.error)
               [] self.type = "ARRAY" ->
                    LET items == DecodeItems(self.item, <<>>, text, text_pos, length)
                    IN  Decoded([self EXCEPT !.value = items.var], items.pos, items.error)
               [] self.type = "B" ->
                    \* result stays None for no bytes, and set(None) returns
                    Decoded(IF length > 0
                            THEN [self EXCEPT !.value = Slice(text, text_pos, length)]
                            ELSE self,
                            text_pos + length, "none")
               [] self.type = "A" ->
                    Decoded([self EXCEPT !.value = Slice(text, text_pos, length)],
                            text_pos + length, "none")
               [] self.type = "BOOLEAN" ->
                    IF text_pos + length > Len(text) THEN Decoded(self, start, "IndexError")
                    ELSE Decoded([self EXCEPT !.value =
                                     [i \in 1..length |-> text[text_pos + i] # 0]],
                                 text_pos + length, "none")
               [] OTHER ->
                    LET size == NumberBytes[self.type]
                        count == length \div size
                    IN  IF text_pos + count * size > Len(text)
                        THEN Decoded(self, start, "ValueError")
                        ELSE Decoded([self EXCEPT !.value =
                                         [i \in 1..count |->
                                             Unpack(Slice(text, text_pos + (i - 1) * size, size),
                                                    self.type \in SignedTypes)]],
                                     text_pos + count * size, "none")

\* the values the variables of a class are given
Values(type) ==
    CASE type = "B" -> {<<>>, <<0>>, <<255, 1>>}
      [] type = "BOOLEAN" -> {<<>>, <<TRUE>>, <<FALSE, TRUE>>}
      [] type = "A" -> {<<>>, <<65>>, <<97, 126>>}
      [] type = "U1" -> {<<>>, <<0>>, <<255, 1>>}
      [] type = "U2" -> {<<256>>, <<65535, 0>>}
      [] type = "U4" -> {<<65536>>, <<2147483647>>}
      [] type = "U8" -> {<<0>>, <<2147483647>>}
      [] type = "I1" -> {<<-128>>, <<127, -1>>}
      [] type = "I2" -> {<<-32768>>, <<32767, -1>>}
      [] type = "I4" -> {<<-2147483647>>, <<2147483647>>}
      [] type = "I8" -> {<<-1>>, <<-2147483647, 2147483647>>}

LeafTypes == {"B", "BOOLEAN", "A"} \cup NumberTypes

LeafVars(type) == {[type |-> type, value |-> value] : value \in Values(type)}

\* lists of a Binary and a U1, arrays of Binary, dynamic variables
ListVars ==
    {[type |-> "L", value |-> <<b, u>>] : b \in LeafVars("B"), u \in LeafVars("U1")}

ArrayVars ==
    {[type |-> "ARRAY", item |-> "B", value |-> items] :
        items \in Lists(LeafVars("B"), MaxItems)}

DynamicVars ==
    {[type |-> "DYNAMIC", value |-> inner] : inner \in LeafVars("B") \cup LeafVars("I2")}

\* the variables of one schema
Schemas ==
    {LeafVars(type) : type \in LeafTypes} \cup {ListVars, ArrayVars, DynamicVars}

\* a variable to encode and a variable of the same schema to decode into
InitCodec ==
    /\ InitLayers(PyInt(0), FALSE)
    /\ codecStage = "new"
    /\ \E schema \in Schemas :
          /\ codecVar \in schema
          /\ codecInto \in schema
    /\ codecData = <<>>
    /\ codecResult = NoResult
    /\ codecLength = 0
    /\ codecFormat = 0

\* data = v.encode()
Encode ==
    /\ codecStage = "new"
    /\ codecData' = encode(codecVar)
    /\ codecStage' = "encoded"
    /\ UNCHANGED <<codecVar, codecInto, codecResult, codecLength, codecFormat>>
    /\ UNCHANGED <<baseVars, secsVars, gemVars, fsmVars, programVars, linktestVars>>

\* other.decode(data)
Decode ==
    /\ codecStage = "encoded"
    /\ LET decoded == decode(codecInto, codecData, 0)
       IN  /\ codecInto' = decoded.var
           /\ codecResult' = [NoResult EXCEPT !.error = decoded.error,
                                              !.text_pos = decoded.pos]
    /\ codecStage' = "decoded"
    /\ UNCHANGED <<codecVar, codecData, codecLength, codecFormat>>
    /\ UNCHANGED <<baseVars, secsVars, gemVars, fsmVars, programVars, linktestVars>>

NextCodec ==
    \/ Encode
    \/ Decode

SpecCodec == InitCodec /\ [][NextCodec]_vars

\* C27: the variable that has decoded the bytes of v.encode() is equal to v,
\* whatever it held before, and decode returned the number of the bytes.
C27_RoundTrip ==
    codecStage = "decoded" =>
        /\ codecResult.error = "none"
        /\ codecInto = codecVar
        /\ codecResult.text_pos = Len(codecData)

\* the lengths and the format codes given to encode_item_header
Lengths == {-1, 0, 1, 255, 256, 65535, 65536, 16777215, 16777216}

InitHeader ==
    /\ InitLayers(PyInt(0), FALSE)
    /\ codecStage = "new"
    /\ codecVar = NoVar
    /\ codecInto = NoVar
    /\ codecData = <<>>
    /\ codecResult = NoResult
    /\ codecLength \in Lengths
    /\ codecFormat \in {FormatCodes[type] : type \in LeafTypes \cup {"L"}}

\* self.encode_item_header(length)
EncodeItemHeader ==
    /\ codecStage = "new"
    /\ LET header == encode_item_header(codecFormat, codecLength)
       IN  /\ codecData' = header.bytes
           /\ codecResult' = [NoResult EXCEPT !.error = header.error]
           /\ codecStage' = IF header.error = "none" THEN "encoded" ELSE "failed"
    /\ UNCHANGED <<codecVar, codecInto, codecLength, codecFormat>>
    /\ UNCHANGED <<baseVars, secsVars, gemVars, fsmVars, programVars, linktestVars>>

\* decode_item_header(data) of a variable of the same class, or of a
\* SecsVarDynamic, whose formatCode is -1
DecodeItemHeader ==
    /\ codecStage = "encoded"
    /\ \E selfFormat \in {codecFormat, -1} :
          codecResult' = decode_item_header(selfFormat, codecData, 0)
    /\ codecStage' = "decoded"
    /\ UNCHANGED <<codecVar, codecInto, codecData, codecLength, codecFormat>>
    /\ UNCHANGED <<baseVars, secsVars, gemVars, fsmVars, programVars, linktestVars>>

NextHeader ==
    \/ EncodeItemHeader
    \/ DecodeItemHeader

SpecHeader == InitHeader /\ [][NextHeader]_vars

\* the smallest n with length < 2^(8n)
LengthBytes(length) == IF length < 256 THEN 1 ELSE IF length < 65536 THEN 2 ELSE 3

\* C28: encode_item_header(L) fails exactly if L < 0 or L > 0xFFFFFF.
\* Otherwise its bytes are formatCode * 4 + n and the n bytes of L, highest
\* first, n in 1..3 the smallest with L < 2^(8n); and decode_item_header of
\* these bytes returns the format code, L, and the position n + 1.
C28_ItemHeader ==
    LET n == LengthBytes(codecLength)
    IN  /\ codecStage # "new" =>
              ((codecStage = "failed") <=> (codecLength < 0 \/ codecLength > 16777215))
        /\ codecStage \in {"encoded", "decoded"} =>
              codecData = <<codecFormat * 4 + n>>
                          \o [i \in 1..n |-> (codecLength \div 256^(n - i)) % 256]
        /\ codecStage = "decoded" =>
              codecResult = [error |-> "none", text_pos |-> n + 1,
                             format_code |-> codecFormat, length |-> codecLength]

\* C28 happens: 65536 took three length bytes and came back.
C28_ThreeBytes ==
    /\ codecStage = "decoded"
    /\ codecLength = 65536
    /\ Len(codecData) = 4
    /\ codecResult.length = 65536


\* C39: every report a link of a collection event names is a registered
\* report, and no link is without reports.
C39_LinksNameReports ==
    \A ceid \in DOMAIN registeredEvents :
        /\ registeredEvents[ceid].reports # <<>>
        /\ \A i \in 1..Len(registeredEvents[ceid].reports) :
              registeredEvents[ceid].reports[i] \in registeredReports


\* the step with which the handler of S2F37 begins: it has changed the links
BeginsS02F37 ==
    /\ EquipmentIdle
    /\ handling'.name = "_on_s02f37"
    /\ todo' # <<>>

\* C40: an S2F37 that names an event without a link is answered with ERACK
\* 1 and changes the flag enabled of no link; an S2F37 that names no event
\* is answered with ERACK 0 and sets the flag of every link to CEED.
C40_EnableAllOrNothing ==
    [][BeginsS02F37 =>
          LET ceids == handling'.args
          IN  /\ (\E i \in 1..Len(ceids) : ceids[i] \notin DOMAIN registeredEvents)
                    => /\ todo' = <<DoSend(Msg(2, 38, <<1>>))>>
                       /\ registeredEvents' = registeredEvents
              /\ ceids = <<>>
                    => /\ todo' = <<DoSend(Msg(2, 38, <<0>>))>>
                       /\ \E ceed \in BOOLEAN :
                             \A ceid \in DOMAIN registeredEvents :
                                 registeredEvents'[ceid].enabled = ceed]_vars


\* the control states in which the equipment rests
RestingStates == {"EQUIPMENT_OFFLINE", "HOST_OFFLINE", "ONLINE_LOCAL", "ONLINE_REMOTE"}

C38_ClosedIsHostOffline ==
    Handled("on_connection_closed") =>
        /\ current = "HOST_OFFLINE"
        /\ ~Sent(Msg(1, 1, <<>>))

\* C38 happens: the connection closed on an equipment that was
\* ONLINE_REMOTE.
C38_ClosedOnline ==
    /\ Handled("on_connection_closed")
    /\ handling.found = "ONLINE_REMOTE"
    /\ current = "HOST_OFFLINE"

(***************************************************************************)
(* The engine on any machine m: event functions called by the application  *)
(* or from inside a callback, callbacks that return None or False, the     *)
(* automatic edges and the call of a pending transition.                   *)
(***************************************************************************)
MachineFire(m, evt, caught) ==
    /\ MayFire
    /\ fired' = fired + 1
    /\ FsmFire(m, evt, caught)
    /\ UNCHANGED <<callbackCalls, otherVars>>

MachineCall(m) ==
    /\ FsmCall(m)
    /\ callbackCalls' = callbackCalls + 1
    /\ UNCHANGED <<fired, otherVars>>

MachineSkip(m) == FsmSkip(m) /\ UNCHANGED <<fired, callbackCalls, otherVars>>

MachineReturn(m, ret) == FsmReturn(m, ret) /\ UNCHANGED <<fired, callbackCalls, otherVars>>

MachineForward(m) == FsmForward(m) /\ UNCHANGED <<fired, callbackCalls, otherVars>>

MachineTransition(m) ==
    /\ MayFire
    /\ fired' = fired + 1
    /\ FsmTransition(m)
    /\ UNCHANGED <<callbackCalls, otherVars>>

(***************************************************************************)
(* A machine with two automatic edges in a row, X to Y and Y to Z, and     *)
(* callbacks onleaveA and onleaveX that may defer.                         *)
(***************************************************************************)
ChainMap ==
    (<<"startup", "none">> :> "A") @@ (<<"go", "A">> :> "Z") @@ (<<"jump", "A">> :> "X")
    @@ (<<"home", "Z">> :> "A")

ChainMachine ==
    [map |-> ChainMap,
     autoforward |-> ("X" :> "Y") @@ ("Y" :> "Z"),
     callbacks |-> {<<"onleave", "A">>, <<"onleave", "X">>, <<"onenter", "Z">>,
                    <<"onchangestate", "">>, <<"onafter", "go">>}]

ChainEvents == {"startup", "go", "jump", "home"}

NextChain ==
    \/ \E evt \in ChainEvents, caught \in BOOLEAN : MachineFire(ChainMachine, evt, caught)
    \/ MachineCall(ChainMachine)
    \/ MachineSkip(ChainMachine)
    \/ \E ret \in Returns : MachineReturn(ChainMachine, ret)
    \/ MachineForward(ChainMachine)
    \/ MachineTransition(ChainMachine)

SpecChain == Init /\ [][NextChain]_vars

\* a transition is pending and its event function is not between
\* onbefore<Event> and the end of onleave<Src>: onleave<Src> deferred it
Deferred == HasTransition /\ (stack = <<>> \/ Top.phase # "leave")

\* this step is the call of the pending transition
Resumes ==
    /\ transition' = NoTransition
    /\ Len(stack') = Len(stack) + 1
    /\ stack'[Len(stack')].run = "deferred"

\* C31: once onleave<Src> has returned False the state stays the source and
\* the transition stays pending, no enter, changestate or after callback
\* runs, every event fired fails with the error of a transition in progress,
\* until the pending transition is called; that call sets the state to the
\* destination and goes on with the enter, changestate and after callbacks.
C31_DeferredUntilResumed ==
    [][Deferred =>
          IF Resumes
          THEN /\ current' = transition.dst
               /\ stack'[Len(stack')].phase = "enter"
          ELSE /\ current' = current
               /\ transition' = transition
               /\ callbackCalls' = callbackCalls
               /\ fired' # fired => fsmError' = "in_progress"]_vars

(***************************************************************************)
(* The communication state machine of GemHandler as the engine runs it.    *)
(* Its callbacks return None and fire no event; _on_state_wait_cra sends   *)
(* S1F13 and may raise.                                                    *)
(***************************************************************************)
DisableSources ==
    {"ENABLED", "NOT_COMMUNICATING", "COMMUNICATING", "EQUIPMENT_INITIATED_CONNECT",
     "WAIT_DELAY", "WAIT_CRA", "HOST_INITIATED_CONNECT", "WAIT_CR_FROM_HOST"}

CommunicationMap ==
    (<<"startup", "none">> :> "DISABLED")
    @@ (<<"enable", "DISABLED">> :> "ENABLED")
    @@ [k \in {"disable"} \X DisableSources |-> "DISABLED"]
    @@ (<<"select", "NOT_COMMUNICATING">> :> "EQUIPMENT_INITIATED_CONNECT")
    @@ (<<"communicationreqfail", "WAIT_CRA">> :> "WAIT_DELAY")
    @@ (<<"delayexpired", "WAIT_DELAY">> :> "WAIT_CRA")
    @@ (<<"messagereceived", "WAIT_DELAY">> :> "WAIT_CRA")
    @@ (<<"s1f14received", "WAIT_CRA">> :> "COMMUNICATING")
    @@ (<<"communicationfail", "COMMUNICATING">> :> "NOT_COMMUNICATING")
    @@ [k \in {"s1f13received"} \X {"WAIT_CR_FROM_HOST", "WAIT_DELAY", "WAIT_CRA"}
           |-> "COMMUNICATING"]

CommunicationMachine ==
    [map |-> CommunicationMap,
     autoforward |-> ("ENABLED" :> "NOT_COMMUNICATING")
                     @@ ("EQUIPMENT_INITIATED_CONNECT" :> "WAIT_CRA")
                     @@ ("HOST_INITIATED_CONNECT" :> "WAIT_CR_FROM_HOST"),
     callbacks |-> {<<"on", "WAIT_CRA">>, <<"on", "WAIT_DELAY">>, <<"onleave", "WAIT_CRA">>,
                    <<"onleave", "WAIT_DELAY">>, <<"on", "COMMUNICATING">>}]

CommunicationEvents ==
    {"startup", "enable", "disable", "select", "communicationreqfail", "delayexpired",
     "s1f14received", "communicationfail", "s1f13received"}

\* an operation of the handler fires an event of the machine
CommunicationFire(evt) ==
    /\ stack = <<>>
    /\ current = "none" <=> evt = "startup"
    /\ fired < MaxEvents
    /\ fired' = fired + 1
    /\ FsmFire(CommunicationMachine, evt, FALSE)
    /\ UNCHANGED <<callbackCalls, otherVars>>

\* send_stream_function raises in _on_state_wait_cra
CommunicationRaise ==
    /\ InCallback
    /\ CallbackOf(CommunicationMachine, Top) = <<"on", "WAIT_CRA">>
    /\ Raise("error")
    /\ UNCHANGED <<fired, callbackCalls, otherVars>>

NextCommunication ==
    \/ \E evt \in CommunicationEvents : CommunicationFire(evt)
    \/ MachineCall(CommunicationMachine)
    \/ MachineSkip(CommunicationMachine)
    \/ MachineReturn(CommunicationMachine, "None")
    \/ MachineForward(CommunicationMachine)
    \/ CommunicationRaise

SpecCommunication == Init /\ [][NextCommunication]_vars

\* C32: when no event function of the communication state machine is in
\* execution the state is not the source of an automatic edge: the machine
\* never rests in ENABLED, EQUIPMENT_INITIATED_CONNECT or
\* HOST_INITIATED_CONNECT.
C32_ForwardedToRest ==
    stack = <<>> => current \notin DOMAIN CommunicationMachine.autoforward

\* C32 happens: select was fired in NOT_COMMUNICATING and the machine has
\* come to rest in WAIT_CRA.
C32_SelectForwarded ==
    /\ stack = <<>>
    /\ current = "WAIT_CRA"
    /\ fsmError = "none"
    /\ fired = 3

\* a primary message: its function is odd
Primary(p) == p.sType = 0 /\ p.function % 2 = 1

\* C33: a primary data message the receiver thread reads on a connected or
\* selected session is passed to the stream/function dispatch and not put
\* into the queue of a pending request, whatever its system id.
C33_PrimaryDispatched ==
    [][Receiving => \A p \in PeerPackets :
          (Primary(p) /\ ~RejectsData /\ Receives(p)) =>
              /\ dispatched' = Append(dispatched, p)
              /\ pc'[Rcv] # "put"]_vars

(***************************************************************************)
(* Remote commands: the host sends S2F41, the handler acknowledges it with *)
(* S2F42 itself before it calls the callback of the command.               *)
(***************************************************************************)
\* the remote commands of the equipment: their parameters and the event
\* that tells the host the command is done
_remote_commands ==
    ("START" :> [params |-> {}, ce_finished |-> 20])
    @@ ("STOP" :> [params |-> {}, ce_finished |-> 21])

\* what the callback rcmd_<RCMD> of the application does, if there is one
CommandCallbacks == {"unset", "none", "raises"}

DoRaise == Do("raise", "", <<>>, NoMsg)

\* S2F42 with HCACK
CommandAck(hcack) == Msg(2, 42, <<hcack>>)

_on_s02f41(rcmd, params, callback) ==
    /\ StartOperation("_on_s02f41", <<rcmd>>,
          IF rcmd \notin DOMAIN _remote_commands \/ callback = "unset"
          THEN <<DoSend(CommandAck(1))>>
          ELSE IF \E i \in 1..Len(params) : params[i] \notin _remote_commands[rcmd].params
          THEN <<DoSend(CommandAck(3))>>
          ELSE <<DoSend(CommandAck(4))>>
               \o (IF callback = "raises" THEN <<DoRaise>> ELSE <<>>)
               \o <<DoTrigger(<<_remote_commands[rcmd].ce_finished>>)>>)
    /\ UNCHANGED eventVars

\* the callback of the command raises
CommandCallbackRaises ==
    /\ Running
    /\ Head(todo).op = "raise"
    /\ todo' = Unwind
    /\ UNCHANGED <<handling, eqSent, areYouThere, initialControlState, onlineControlState>>
    /\ UNCHANGED <<eventVars, fsmVars, lowerVars>>

\* the commands the host names; PAUSE is no command of the equipment
CommandNames == {"START", "STOP", "PAUSE"}

\* the links the host defines for the events of the commands
CommandLinks ==
    {<<[CEID |-> _remote_commands[rcmd].ce_finished, RPTID |-> <<1>>]>> :
        rcmd \in DOMAIN _remote_commands}

NextCommands ==
    \/ \E initial \in initialControlStates, online \in onlineControlStates :
          EquipmentInit(initial, online)
    \/ ControlFire
    \/ ControlCall
    \/ ControlSkip
    \/ ControlForward
    \/ ControlReturn
    \/ \E rcmd \in CommandNames, params \in {<<>>, <<"CPNAME">>}, callback \in CommandCallbacks :
          _on_s02f41(rcmd, params, callback)
    \/ CommandCallbackRaises
    \/ \E data \in ControlReports : _on_s02f33(data)
    \/ \E data \in CommandLinks : _on_s02f35(data)
    \/ \E ceed \in BOOLEAN : _on_s02f37(ceed, <<>>)
    \/ TriggerCollectionEvent
    \/ \E ok \in BOOLEAN : SendRequest(ok)
    \/ \E reply \in Responses : ReceiveResponse(reply)
    \/ SendReply

SpecCommands == InitEquipment /\ [][NextCommands]_vars

\* the replies among the messages of the operation: send_response sends
\* them with the system id of the message the handler answers
Replies == {i \in 1..Len(eqSent) : eqSent[i].function % 2 = 0}

\* C34: a handler sends at most one reply to the message it handles.
C34_OneReply ==
    handling.name \in DOMAIN HandlerStream => Cardinality(Replies) <= 1

\* C35: whenever the session becomes selected the communication state is
\* NOT_COMMUNICATING, and the select event moves it to WAIT_CRA and sends
\* S1F13.
C35_SelectEntersWaitCra ==
    [][OnHsmsSelect =>
          /\ communicationState = "NOT_COMMUNICATING"
          /\ communicationState' = "WAIT_CRA"
          /\ sentPackets' = Append(sentPackets, EstablishCommunicationRequest)]_vars

(***************************************************************************)
(* The linktest timer of HsmsHandler.  A threading.Timer is armed from     *)
(* start() until it expires or is cancelled; when it expires its thread    *)
(* runs _on_linktest_timer, which waits in send_linktest_req for the       *)
(* Linktest.rsp, T6 at most, and then starts the next timer.  cancel() has *)
(* no effect on a timer that has expired.                                  *)
(***************************************************************************)
\* _start_linktest_timer: self.linktestTimer = threading.Timer(...), start()
StartLinktestTimer(before) ==
    /\ timers' = Append(before, "armed")
    /\ linktestTimer' = Len(before) + 1

\* on_connection_established: _on_state_connect
LinktestConnectionEstablished ==
    /\ ~connected
    /\ Len(timers) < MaxTimers
    /\ connected' = TRUE
    /\ is_connected' = TRUE
    /\ StartLinktestTimer(timers)
    /\ UNCHANGED <<systemCounter, systemQueues, is_selected>>
    /\ UNCHANGED <<connVars, threadVars, envVars, rxVars, activeVars, secsVars, gemVars, fsmVars,
                   programVars, codecVars>>

\* on_connection_closed: _on_state_disconnect cancels the timer the
\* attribute refers to, if any, and sets the attribute to None
LinktestConnectionClosed ==
    /\ connected
    /\ connected' = FALSE
    /\ is_connected' = FALSE
    /\ timers' = IF linktestTimer # 0 /\ timers[linktestTimer] = "armed"
                 THEN [timers EXCEPT ![linktestTimer] = "cancelled"]
                 ELSE timers
    /\ linktestTimer' = 0
    /\ UNCHANGED <<systemCounter, systemQueues, is_selected>>
    /\ UNCHANGED <<connVars, threadVars, envVars, rxVars, activeVars, secsVars, gemVars, fsmVars,
                   programVars, codecVars>>

\* timer i expires: its thread calls _on_linktest_timer, which sends the
\* Linktest.req and waits
LinktestExpire(i) ==
    /\ i \in 1..Len(timers)
    /\ timers[i] = "armed"
    /\ timers' = [timers EXCEPT ![i] = "running"]
    /\ UNCHANGED linktestTimer
    /\ UNCHANGED <<handlerVars, connVars, threadVars, envVars, rxVars, activeVars, secsVars,
                   gemVars, fsmVars, programVars, codecVars>>

\* send_linktest_req has returned, with the Linktest.rsp or None:
\* _on_linktest_timer starts the next timer
_on_linktest_timer(i) ==
    /\ i \in 1..Len(timers)
    /\ timers[i] = "running"
    /\ Len(timers) < MaxTimers
    /\ StartLinktestTimer([timers EXCEPT ![i] = "done"])
    /\ UNCHANGED <<handlerVars, connVars, threadVars, envVars, rxVars, activeVars, secsVars,
                   gemVars, fsmVars, programVars, codecVars>>

NextLinktest ==
    \/ LinktestConnectionEstablished
    \/ LinktestConnectionClosed
    \/ \E i \in 1..MaxTimers : LinktestExpire(i)
    \/ \E i \in 1..MaxTimers : _on_linktest_timer(i)

SpecLinktest == Init /\ [][NextLinktest]_vars

\* the timers that are armed
Armed == {i \in 1..Len(timers) : timers[i] = "armed"}

\* C36: at most one linktest timer is armed, and none while no connection
\* is established.
C36_OneLinktestTimer ==
    /\ Cardinality(Armed) <= 1
    /\ ~connected => Armed = {}

====
